---- MODULE Spec2Model ----
(***************************************************************************)
(* Blocana: the transaction pool (src/src/transaction/pool.rs), the        *)
(* transaction record (src/src/transaction/mod.rs) and the account state   *)
(* it is validated against (src/src/state/mod.rs).                         *)
(*                                                                         *)
(* A transaction is modelled by the fields its hash, its size and its      *)
(* validation read; its data by the data's length; its signature by        *)
(* whether it verifies against the sender's key.  The hash of a            *)
(* transaction is the record of the signed fields (SHA-256 taken as        *)
(* injective on the signing preimage).  Sizes are those of a 64-bit        *)
(* target.  TLC's integers are 32 bits wide, so the saturating u64         *)
(* arithmetic saturates at U64_MAX = 2^31 - 1 here.                        *)
(***************************************************************************)
EXTENDS Integers, Sequences, FiniteSets, TLC

VARIABLES config, txs, by_fee, by_address, memory_usage, state, now, last_result,
          selected, db, migration, applied

vars == <<config, txs, by_fee, by_address, memory_usage, state, now, last_result,
          selected, db, migration, applied>>

(***************************************************************************)
(* Bounds of the model.                                                    *)
(***************************************************************************)
\* the clock stops here: every admission and every applied transaction
\* takes one tick, so this bounds the length of a run
MaxTime == 3
\* longest input of add_transactions_batch
MaxBatch == 2
\* nonces of submitted transactions are 0..MaxNonce
MaxNonce == 1
\* largest max_count select_transactions is called with
MaxCount == 2
\* most transactions in a block handed to apply_block
MaxBlock == 2
\* blocks in the chain a store may hold at the start: enough for the height
\* key to need its second byte
ChainLength == 256
\* calls of check_and_migrate in a run
MaxCalls == 3
\* versions set_schema_version is called with directly: 0..MaxVersion
MaxVersion == 2

(***************************************************************************)
(* Program constants.                                                      *)
(***************************************************************************)
U64_MAX == 2147483647
\* Transaction::estimate_size: 1 + 32 + 32 + 8 + 8 + 8 + 64
BASE_SIZE == 153
\* Transaction::verify: data.len() > 1024 * 10 is refused
MAX_DATA_LEN == 10240
\* std::mem::size_of on a 64-bit target
SIZE_OF_POOLED_TRANSACTION == 216
SIZE_OF_TRANSACTION_WITH_FEE == 64
SIZE_OF_HASH == 32
SIZE_OF_PUBLIC_KEY_BYTES == 32
SIZE_OF_POINTER == 8
SIZE_OF_HASH_SET == 48

\* Option<T>: None is the empty set, Some(x) the singleton
None == {}
Some(x) == {x}
Unwrap(o) == CHOOSE x \in o : TRUE

Min(a, b) == IF a < b THEN a ELSE b
Max(a, b) == IF a > b THEN a ELSE b

\* u64/usize arithmetic
saturating_add(a, b) == IF a > U64_MAX - b THEN U64_MAX ELSE a + b
saturating_sub(a, b) == IF b > a THEN 0 ELSE a - b
\* a.checked_mul(b).unwrap_or(u64::MAX)
checked_mul_or_max(a, b) == IF b > 0 /\ a > U64_MAX \div b THEN U64_MAX ELSE a * b
\* a.saturating_mul(b)
saturating_mul(a, b) == checked_mul_or_max(a, b)

(***************************************************************************)
(* Transaction (src/src/transaction/mod.rs).                               *)
(***************************************************************************)
Transaction(version, sender, recipient, amount, fee, nonce, data_len, sig_ok) ==
    [version |-> version, sender |-> sender, recipient |-> recipient,
     amount |-> amount, fee |-> fee, nonce |-> nonce, data_len |-> data_len,
     sig_ok |-> sig_ok]

\* Transaction::hash: SHA-256 of the signing preimage, which leaves the
\* signature out
hash(tx) ==
    [version |-> tx.version, sender |-> tx.sender, recipient |-> tx.recipient,
     amount |-> tx.amount, fee |-> tx.fee, nonce |-> tx.nonce,
     data_len |-> tx.data_len]

estimate_size(tx) == BASE_SIZE + tx.data_len

\* Transaction::verify: TRUE for Ok(())
verify(tx) ==
    /\ tx.version = 1
    /\ tx.amount # 0
    /\ tx.fee # 0
    /\ ~(tx.data_len > MAX_DATA_LEN)
    /\ tx.sender # tx.recipient
    /\ tx.amount <= U64_MAX - tx.fee
    /\ tx.sig_ok

\* TransactionPool::calculate_fee_per_byte, and the same computation inlined
\* in the admission paths
calculate_fee_per_byte(tx) ==
    IF estimate_size(tx) = 0 THEN tx.fee ELSE tx.fee \div estimate_size(tx)

(***************************************************************************)
(* BlockchainState (src/src/state/mod.rs): a map from address to           *)
(* [balance, nonce]; an address not in the map has no account yet.         *)
(***************************************************************************)
AccountState_new == [balance |-> 0, nonce |-> 0]

\* the map after get_account_state(address): a missing account is inserted
get_account_state(st, address) ==
    IF address \in DOMAIN st THEN st
    ELSE [a \in DOMAIN st \cup {address} |->
            IF a = address THEN AccountState_new ELSE st[a]]

\* what apply_transaction takes from the sender: amount plus fee, saturating
total_deduction_AmountOnly(tx) == tx.amount

total_deduction(tx) == saturating_add(tx.amount, tx.fee)

\* the nonce check of apply_transaction
NonceMatches_Always(tx, sender_state) == TRUE

NonceMatches(tx, sender_state) == tx.nonce = sender_state.nonce

NextNonce_Unchanged(nonce) == nonce

\* sender_account.nonce += 1
NextNonce(nonce) == nonce + 1

\* [state, ok, error]
apply_transaction(st, tx) ==
    LET s1 == get_account_state(st, tx.sender)
    IN  IF ~NonceMatches(tx, s1[tx.sender])
        THEN [state |-> s1, ok |-> FALSE, error |-> "InvalidNonce"]
        ELSE IF s1[tx.sender].balance < total_deduction(tx)
        THEN [state |-> s1, ok |-> FALSE, error |-> "InsufficientBalance"]
        ELSE LET s2 == [s1 EXCEPT ![tx.sender] =
                            [balance |-> saturating_sub(@.balance, total_deduction(tx)),
                             nonce |-> NextNonce(@.nonce)]]
                 s3 == get_account_state(s2, tx.recipient)
             IN  [state |-> [s3 EXCEPT ![tx.recipient].balance =
                                saturating_add(@, tx.amount)],
                  ok |-> TRUE, error |-> ""]

\* apply_block over block.transactions: each transaction is applied to the
\* state the previous one left; the first error ends the loop and is returned
RECURSIVE apply_block(_, _)
apply_block(st, transactions) ==
    IF transactions = <<>> THEN [state |-> st, ok |-> TRUE, error |-> ""]
    ELSE LET r == apply_transaction(st, Head(transactions))
         IN  IF ~r.ok THEN r ELSE apply_block(r.state, Tail(transactions))

\* the transaction part of Block::validate: every transaction verifies
Block_validate(transactions) ==
    \A i \in 1..Len(transactions) : verify(transactions[i])

(***************************************************************************)
(* TransactionPool (src/src/transaction/pool.rs).  The operations are      *)
(* operators on the pool value P = [txs, by_fee, by_address,               *)
(* memory_usage]; an operator that iterates a HashMap or HashSet takes     *)
(* the iteration order ord, a sequence enumerating the keys of txs.        *)
(***************************************************************************)
Pool == [txs |-> txs, by_fee |-> by_fee, by_address |-> by_address,
         memory_usage |-> memory_usage]

len(P) == Cardinality(DOMAIN P.txs)

\* the iteration orders of a HashMap with these keys
Orders(S) ==
    {f \in [1..Cardinality(S) -> S] : \A i, j \in 1..Cardinality(S) : f[i] = f[j] => i = j}

Restrict(f, S) == [x \in S |-> f[x]]

PooledTransaction(tx, added_time, size) ==
    [transaction |-> tx, added_time |-> added_time, is_valid |-> TRUE, size |-> size]

TransactionWithFee(tx, timestamp) ==
    [tx_hash |-> hash(tx), fee |-> tx.fee,
     fee_per_byte |-> calculate_fee_per_byte(tx), timestamp |-> timestamp]

\* the three index insertions every admission path ends with
InsertIndices(P, tx, added_time, size) ==
    [txs |-> [h \in DOMAIN P.txs \cup {hash(tx)} |->
                IF h = hash(tx) THEN PooledTransaction(tx, added_time, size)
                ELSE P.txs[h]],
     by_fee |-> Append(P.by_fee, TransactionWithFee(tx, added_time)),
     by_address |-> [a \in DOMAIN P.by_address \cup {tx.sender} |->
                IF a = tx.sender
                THEN (IF a \in DOMAIN P.by_address THEN P.by_address[a] ELSE {})
                     \cup {hash(tx)}
                ELSE P.by_address[a]],
     memory_usage |-> P.memory_usage]

hash_map_entry_size == SIZE_OF_HASH + SIZE_OF_POINTER + 32

calculate_transaction_memory_usage(P, tx) ==
    LET sender_entry_size ==
            IF tx.sender \in DOMAIN P.by_address
            THEN SIZE_OF_HASH + 16
            ELSE SIZE_OF_PUBLIC_KEY_BYTES + SIZE_OF_HASH_SET + SIZE_OF_HASH + 48
    IN  estimate_size(tx) + SIZE_OF_POOLED_TRANSACTION + hash_map_entry_size
        + SIZE_OF_TRANSACTION_WITH_FEE + sender_entry_size

\* the sender's set is left in the map when it becomes empty
SenderIndexWithout_KeepsEmptySet(index, sender, h) ==
    IF sender \notin DOMAIN index THEN index
    ELSE [index EXCEPT ![sender] = @ \ {h}]

\* remove_transaction's update of by_address: the hash leaves its sender's
\* set, and the set leaves the map when it becomes empty
SenderIndexWithout(index, sender, h) ==
    IF sender \notin DOMAIN index THEN index
    ELSE IF index[sender] \ {h} = {}
    THEN Restrict(index, DOMAIN index \ {sender})
    ELSE [index EXCEPT ![sender] = @ \ {h}]

\* [pool, removed]
remove_transaction(P, h) ==
    IF h \notin DOMAIN P.txs THEN [pool |-> P, removed |-> FALSE]
    ELSE
    LET tx == P.txs[h].transaction
        sender_entry_size ==
            IF tx.sender \in DOMAIN P.by_address
               /\ Cardinality(P.by_address[tx.sender]) > 1
            THEN SIZE_OF_HASH + 16
            ELSE SIZE_OF_PUBLIC_KEY_BYTES + SIZE_OF_HASH_SET + SIZE_OF_HASH + 48
    IN  [pool |->
            [txs |-> Restrict(P.txs, DOMAIN P.txs \ {h}),
             by_fee |-> P.by_fee,
             by_address |-> SenderIndexWithout(P.by_address, tx.sender, h),
             memory_usage |-> saturating_sub(P.memory_usage,
                estimate_size(tx) + SIZE_OF_POOLED_TRANSACTION + hash_map_entry_size
                + SIZE_OF_TRANSACTION_WITH_FEE + sender_entry_size)],
         removed |-> TRUE]

get_transaction(P, h) ==
    IF h \in DOMAIN P.txs THEN Some(P.txs[h].transaction) ELSE None

\* the first match in the iteration order of the sender's hash set
find_transaction_by_sender_and_nonce(P, sender, nonce, ord) ==
    LET matches == SelectSeq(ord, LAMBDA h :
            /\ sender \in DOMAIN P.by_address
            /\ h \in P.by_address[sender]
            /\ h \in DOMAIN P.txs
            /\ P.txs[h].transaction.nonce = nonce)
    IN  IF matches = <<>> THEN None ELSE Some(P.txs[matches[1]].transaction)

\* Iterator::min_by_key returns the first of several minima; the entry may
\* be stale, and then the lookup in txs gives None
get_lowest_fee_transaction(P) ==
    IF P.by_fee = <<>> THEN None
    ELSE LET i == CHOOSE i \in 1..Len(P.by_fee) :
                    \A j \in 1..Len(P.by_fee) :
                        \/ P.by_fee[i].fee_per_byte < P.by_fee[j].fee_per_byte
                        \/ (P.by_fee[i].fee_per_byte = P.by_fee[j].fee_per_byte /\ i <= j)
         IN  get_transaction(P, P.by_fee[i].tx_hash)

EvictsBefore_OlderFirst(a, b) ==
    \/ a.fee_per_byte < b.fee_per_byte
    \/ (a.fee_per_byte = b.fee_per_byte /\ a.timestamp < b.timestamp)

\* the order of remove_lowest_priority_transactions' sort: fee per byte
\* ascending, then the later timestamp first
EvictsBefore(a, b) ==
    \/ a.fee_per_byte < b.fee_per_byte
    \/ (a.fee_per_byte = b.fee_per_byte /\ a.timestamp > b.timestamp)

\* slice::sort_by is stable: an entry goes after the entries it does not
\* precede
RECURSIVE InsertSorted(_, _)
InsertSorted(e, s) ==
    IF s = <<>> THEN <<e>>
    ELSE IF EvictsBefore(e, Head(s)) THEN <<e>> \o s
    ELSE <<Head(s)>> \o InsertSorted(e, Tail(s))

RECURSIVE SortedEntries(_)
SortedEntries(s) ==
    IF s = <<>> THEN <<>>
    ELSE InsertSorted(s[Len(s)], SortedEntries(SubSeq(s, 1, Len(s) - 1)))

\* the loop "for hash in to_remove { if remove_transaction(hash) { removed += 1 } }"
RECURSIVE RemoveAll(_, _)
RemoveAll(P, hashes) ==
    IF hashes = <<>> THEN [pool |-> P, removed |-> 0]
    ELSE LET r == remove_transaction(P, Head(hashes))
             rest == RemoveAll(r.pool, Tail(hashes))
         IN  [pool |-> rest.pool,
              removed |-> rest.removed + (IF r.removed THEN 1 ELSE 0)]

\* self.txs.keys().next()
FirstKey(P, ord) == Head(SelectSeq(ord, LAMBDA h : h \in DOMAIN P.txs))

\* [pool, removed]
remove_lowest_priority_transactions(P, count, ord) ==
    IF DOMAIN P.txs = {} \/ count = 0 THEN [pool |-> P, removed |-> 0]
    ELSE
    LET keys == SelectSeq(ord, LAMBDA h : h \in DOMAIN P.txs)
        \* the fee index is rebuilt, in the map's iteration order, when its
        \* length differs from the number of transactions
        P1 == IF Len(P.by_fee) # len(P)
              THEN [P EXCEPT !.by_fee =
                        [i \in 1..Len(keys) |->
                            TransactionWithFee(P.txs[keys[i]].transaction,
                                               P.txs[keys[i]].added_time)]]
              ELSE P
        fee_entries == SortedEntries(P1.by_fee)
        to_remove == [i \in 1..Min(count, Len(fee_entries)) |-> fee_entries[i].tx_hash]
        r == RemoveAll(P1, to_remove)
    IN  IF fee_entries = <<>> /\ DOMAIN P1.txs # {}
        THEN [pool |-> remove_transaction(P1, FirstKey(P1, ord)).pool, removed |-> 1]
        ELSE IF r.removed = 0 /\ DOMAIN r.pool.txs # {}
        THEN [pool |-> remove_transaction(r.pool, FirstKey(r.pool, ord)).pool,
              removed |-> 1]
        ELSE r

\* [pool, removed]
optimize_memory(P, ord) ==
    IF P.memory_usage <= (config.max_memory * 3) \div 4
    THEN [pool |-> P, removed |-> 0]
    ELSE
    LET target_memory == (config.max_memory * 6) \div 10
        memory_to_free == saturating_sub(P.memory_usage, target_memory)
        tx_count_to_remove ==
            IF len(P) > 0
            THEN Max(memory_to_free \div (P.memory_usage \div len(P)), 1)
            ELSE 0
    IN  IF memory_to_free = 0 THEN [pool |-> P, removed |-> 0]
        ELSE remove_lowest_priority_transactions(P, tx_count_to_remove, ord)

\* [pool, removed]: the transactions older than expiry_time at time t
RECURSIVE RemoveSet(_, _)
RemoveSet(P, hashes) ==
    IF hashes = {} THEN P
    ELSE LET h == CHOOSE h \in hashes : TRUE
         IN  RemoveSet(remove_transaction(P, h).pool, hashes \ {h})

IsExpired_AtMaxAge(pooled_tx, t, max_age) == t - pooled_tx.added_time >= max_age

\* now.duration_since(pooled_tx.added_time) > max_age
IsExpired(pooled_tx, t, max_age) == t - pooled_tx.added_time > max_age

remove_expired(P, t) ==
    LET expired_hashes ==
            {h \in DOMAIN P.txs : IsExpired(P.txs[h], t, config.expiry_time)}
    IN  [pool |-> RemoveSet(P, expired_hashes), removed |-> Cardinality(expired_hashes)]

\* [pool, removed]
perform_maintenance(P, t, ord) ==
    LET e == remove_expired(P, t)
        o == optimize_memory(e.pool, ord)
        removed == e.removed + o.removed
    IN  IF removed > 0 /\ Len(o.pool.by_fee) > len(o.pool) * 2
        THEN [pool |-> [o.pool EXCEPT !.by_fee =
                            SelectSeq(@, LAMBDA entry : entry.tx_hash \in DOMAIN o.pool.txs)],
              removed |-> removed]
        ELSE [pool |-> o.pool, removed |-> removed]

\* what every admission adds to memory_usage before its limit check
AdmissionCharge(tx) ==
    estimate_size(tx) + SIZE_OF_POOLED_TRANSACTION + SIZE_OF_TRANSACTION_WITH_FEE

Outcome(P, st, result) == [pool |-> P, state |-> st, result |-> result]

\* "self.memory_usage -= amount" on a rejection path: with overflow checks
\* the subtraction panics when amount exceeds the counter, and the counter
\* keeps its value
RejectAndRefund(P, st, amount, result) ==
    IF amount > P.memory_usage THEN Outcome(P, st, "Panic")
    ELSE Outcome([P EXCEPT !.memory_usage = @ - amount], st, result)

\* the bump is left out
MinReplacementFee_NoBump(existing_fee) == existing_fee

\* the bump is rounded up instead of down
MinReplacementFee_RoundsUp(existing_fee) ==
    LET product == checked_mul_or_max(existing_fee, config.replacement_fee_bump)
    IN  saturating_add(existing_fee,
            product \div 100 + (IF product % 100 = 0 THEN 0 ELSE 1))

\* the fee a replacement of a transaction paying existing_fee must reach
MinReplacementFee(existing_fee) ==
    saturating_add(existing_fee,
        checked_mul_or_max(existing_fee, config.replacement_fee_bump) \div 100)

\* [pool, state, result]; t is Instant::now()
process_replacement_transaction(P, new_tx, existing_hash, st, t, ord) ==
    IF get_transaction(P, existing_hash) = None
    THEN Outcome(P, st, "ExistingNotFound")
    ELSE
    LET existing_tx == Unwrap(get_transaction(P, existing_hash))
        min_fee == MinReplacementFee(existing_tx.fee)
        r == remove_transaction(P, existing_hash)
        tx_size == estimate_size(new_tx)
        P1 == [r.pool EXCEPT !.memory_usage = @ + tx_size]
        o == optimize_memory(P1, ord)
    IN  IF new_tx.fee < min_fee THEN Outcome(P, st, "ReplacementFeeTooLow")
        ELSE IF ~r.removed THEN Outcome(r.pool, st, "ReplacementRemoveFailed")
        ELSE IF P1.memory_usage > config.max_memory
        THEN IF o.pool.memory_usage > config.max_memory
             THEN RejectAndRefund(o.pool, st, tx_size, "ReplacementMemoryLimit")
             ELSE Outcome(InsertIndices(o.pool, new_tx, t, tx_size), st, "Ok")
        ELSE Outcome(InsertIndices(P1, new_tx, t, tx_size), st, "Ok")

\* [pool, state, result]; t is Instant::now()
add_transaction_with_replacement(P, tx, st, allow_replacement, t, ord) ==
    IF ~verify(tx) THEN Outcome(P, st, "InvalidTransaction")
    ELSE IF hash(tx) \in DOMAIN P.txs THEN Outcome(P, st, "AlreadyInPool")
    ELSE
    LET st1 == get_account_state(st, tx.sender)
        sender_state == st1[tx.sender]
        existing_tx == find_transaction_by_sender_and_nonce(P, tx.sender, tx.nonce, ord)
        total_cost == saturating_add(tx.amount, tx.fee)
        tx_size == estimate_size(tx)
        fee_per_byte == IF tx_size > 0 THEN tx.fee \div tx_size ELSE tx.fee
        at_capacity == len(P) >= config.max_size
        lowest_fee_tx == get_lowest_fee_transaction(P)
        lowest_fee_per_byte ==
            IF estimate_size(Unwrap(lowest_fee_tx)) > 0
            THEN Unwrap(lowest_fee_tx).fee \div estimate_size(Unwrap(lowest_fee_tx))
            ELSE Unwrap(lowest_fee_tx).fee
        \* the pool after the eviction at capacity, if there is one
        P1 == IF at_capacity /\ lowest_fee_tx # None
              THEN remove_transaction(P, hash(Unwrap(lowest_fee_tx))).pool
              ELSE P
        P2 == [P1 EXCEPT !.memory_usage = @ + AdmissionCharge(tx)]
        projected_memory == P2.memory_usage + AdmissionCharge(tx)
        o == optimize_memory(P2, ord)
    IN  IF existing_tx # None
        THEN IF allow_replacement
             THEN process_replacement_transaction(P, tx, hash(Unwrap(existing_tx)),
                                                  st1, t, ord)
             ELSE Outcome(P, st1, "NonceAlreadyExists")
        ELSE IF tx.nonce # sender_state.nonce THEN Outcome(P, st1, "InvalidNonce")
        ELSE IF sender_state.balance < total_cost
        THEN Outcome(P, st1, "InsufficientBalance")
        ELSE IF fee_per_byte < config.min_fee_per_byte THEN Outcome(P, st1, "FeeTooLow")
        ELSE IF at_capacity /\ lowest_fee_tx # None /\ fee_per_byte <= lowest_fee_per_byte
        THEN Outcome(P, st1, "PoolFull")
        ELSE IF P2.memory_usage > (config.max_memory * 3) \div 4
                \/ projected_memory > config.max_memory
        THEN IF o.removed = 0 /\ projected_memory > config.max_memory
             THEN RejectAndRefund(o.pool, st1, AdmissionCharge(tx), "MemoryLimit")
             ELSE IF o.pool.memory_usage > config.max_memory
             THEN RejectAndRefund(o.pool, st1, AdmissionCharge(tx), "MemoryLimit")
             ELSE Outcome(InsertIndices(o.pool, tx, t, tx_size), st1, "Ok")
        ELSE Outcome(InsertIndices(P2, tx, t, tx_size), st1, "Ok")

add_transaction(P, tx, st, t, ord) ==
    add_transaction_with_replacement(P, tx, st, FALSE, t, ord)

\* the group is processed in input order
SortedByNonce_InputOrder(s) == s

\* sort_by_key(nonce) is stable: an item goes after the items whose nonce is
\* not greater
RECURSIVE InsertByNonce(_, _)
InsertByNonce(item, s) ==
    IF s = <<>> THEN <<item>>
    ELSE IF item.tx.nonce < Head(s).tx.nonce THEN <<item>> \o s
    ELSE <<Head(s)>> \o InsertByNonce(item, Tail(s))

RECURSIVE SortedByNonce(_)
SortedByNonce(s) ==
    IF s = <<>> THEN <<>>
    ELSE InsertByNonce(s[Len(s)], SortedByNonce(SubSeq(s, 1, Len(s) - 1)))

\* the (index, transaction) pairs of one sender, in input order
GroupOf(transactions, sender) ==
    SelectSeq([i \in 1..Len(transactions) |-> [idx |-> i - 1, tx |-> transactions[i]]],
              LAMBDA item : item.tx.sender = sender)

BatchFail(acc, item, error) ==
    [acc EXCEPT !.failures = Append(@, [idx |-> item.idx, error |-> error])]

\* the accepted item is applied to the caller's state
CallerStateAfterItem_Applied(st, temp_state) == temp_state

\* the caller's state after an item is accepted: the item's cost and nonce
\* are booked on temp_state, the clone, and the state itself is not written
CallerStateAfterItem(st, temp_state) == st

\* one sender's group against its clone of the state; acc is
\* [pool, state, successes, failures, t], t the clock
RECURSIVE BatchGroup(_, _, _)
BatchGroup(acc, items, temp_state) ==
    IF items = <<>> THEN acc
    ELSE
    LET item == Head(items)
        tx == item.tx
        temp1 == get_account_state(temp_state, tx.sender)
        sender_state == temp1[tx.sender]
        total_cost == saturating_add(tx.amount, tx.fee)
        tx_size == estimate_size(tx)
        fee_per_byte == IF tx_size > 0 THEN tx.fee \div tx_size ELSE tx.fee
        temp2 == [temp1 EXCEPT ![tx.sender].balance = @ - total_cost]
        temp3 == get_account_state(temp2, tx.recipient)
        temp4 == [temp3 EXCEPT ![tx.recipient].balance = @ + tx.amount,
                               ![tx.sender].nonce = @ + 1]
        tx_memory_usage == calculate_transaction_memory_usage(acc.pool, tx)
        inserted == InsertIndices(acc.pool, tx, acc.t, tx_memory_usage)
    IN  IF ~verify(tx)
        THEN BatchGroup(BatchFail(acc, item, "InvalidTransaction"), Tail(items), temp_state)
        ELSE IF hash(tx) \in DOMAIN acc.pool.txs
        THEN BatchGroup(BatchFail(acc, item, "AlreadyInPool"), Tail(items), temp_state)
        ELSE IF tx.nonce # sender_state.nonce
        THEN BatchGroup(BatchFail(acc, item, "InvalidNonce"), Tail(items), temp1)
        ELSE IF sender_state.balance < total_cost
        THEN BatchGroup(BatchFail(acc, item, "InsufficientBalance"), Tail(items), temp1)
        ELSE IF fee_per_byte < config.min_fee_per_byte
        THEN BatchGroup(BatchFail(acc, item, "FeeTooLow"), Tail(items), temp1)
        ELSE BatchGroup(
                [pool |-> [inserted EXCEPT !.memory_usage = @ + tx_memory_usage],
                 state |-> CallerStateAfterItem(acc.state, temp4),
                 successes |-> Append(acc.successes, hash(tx)),
                 failures |-> acc.failures,
                 t |-> acc.t + 1],
                Tail(items), temp4)

RECURSIVE BatchGroups(_, _, _, _)
BatchGroups(acc, transactions, st, senders) ==
    IF senders = <<>> THEN acc
    ELSE BatchGroups(
            BatchGroup(acc, SortedByNonce(GroupOf(transactions, Head(senders))),
                       acc.state),
            transactions, st, Tail(senders))

\* [pool, state, successes, failures, t]; senders is the iteration order of
\* the groups map, t the clock when the call starts
add_transactions_batch(P, transactions, st, t, senders) ==
    BatchGroups([pool |-> P, state |-> st, successes |-> <<>>, failures |-> <<>>,
                 t |-> t],
                transactions, st, senders)

(***************************************************************************)
(* Selection for block production.                                         *)
(***************************************************************************)
\* among equal fees per byte the newer transaction sorts first
SelectsBefore_NewerFirst(P, a, b) ==
    \/ calculate_fee_per_byte(P.txs[a].transaction)
            > calculate_fee_per_byte(P.txs[b].transaction)
    \/ /\ calculate_fee_per_byte(P.txs[a].transaction)
            = calculate_fee_per_byte(P.txs[b].transaction)
       /\ P.txs[a].added_time > P.txs[b].added_time

\* the comparator of valid_txs.sort_by: a sorts before b
SelectsBefore(P, a, b) ==
    \/ calculate_fee_per_byte(P.txs[a].transaction)
            > calculate_fee_per_byte(P.txs[b].transaction)
    \/ /\ calculate_fee_per_byte(P.txs[a].transaction)
            = calculate_fee_per_byte(P.txs[b].transaction)
       /\ P.txs[a].added_time < P.txs[b].added_time

\* whether the projected nonce of the sender admits the transaction
NonceFits_Always(tx, current_nonce) == TRUE

\* "if tx.nonce != current_nonce { continue; }"
NonceFits(tx, current_nonce) == tx.nonce = current_nonce

\* whether the projected balance of the sender admits the transaction
BalanceCovers_Always(tx, current_balance) == TRUE

\* "if current_balance < total_cost { continue; }"
BalanceCovers(tx, current_balance) ==
    current_balance >= saturating_add(tx.amount, tx.fee)

\* valid_txs of one round, in the iteration order of txs
ValidTxs(P, sender_states, processed, ord) ==
    SelectSeq(ord, LAMBDA h :
        /\ h \in DOMAIN P.txs
        /\ h \notin processed
        /\ P.txs[h].is_valid
        /\ NonceFits(P.txs[h].transaction,
                     sender_states[P.txs[h].transaction.sender].nonce)
        /\ BalanceCovers(P.txs[h].transaction,
                         sender_states[P.txs[h].transaction.sender].balance))

\* valid_txs[0] after the stable sort: the first candidate no other sorts
\* before
FirstSorted(P, valid_txs) ==
    LET i == CHOOSE i \in 1..Len(valid_txs) :
                /\ \A j \in 1..Len(valid_txs) : ~SelectsBefore(P, valid_txs[j], valid_txs[i])
                /\ \A j \in 1..(i - 1) :
                    \E k \in 1..Len(valid_txs) : SelectsBefore(P, valid_txs[k], valid_txs[j])
    IN  valid_txs[i]

RECURSIVE SelectRounds(_, _, _, _, _, _)
SelectRounds(P, rounds, sender_states, processed, result, ord) ==
    LET valid_txs == ValidTxs(P, sender_states, processed, ord)
        selected_hash == FirstSorted(P, valid_txs)
        tx == P.txs[selected_hash].transaction
    IN  IF rounds = 0 \/ valid_txs = <<>> THEN result
        ELSE SelectRounds(P, rounds - 1,
                [sender_states EXCEPT ![tx.sender] =
                    [balance |-> @.balance - (tx.amount + tx.fee),
                     nonce |-> @.nonce + 1]],
                processed \cup {selected_hash}, Append(result, tx), ord)

\* the senders select_transactions reads from the state
PooledSenders(P) == {P.txs[h].transaction.sender : h \in DOMAIN P.txs}

RECURSIVE WithAccounts(_, _)
WithAccounts(st, addresses) ==
    IF addresses = {} THEN st
    ELSE LET a == CHOOSE a \in addresses : TRUE
         IN  WithAccounts(get_account_state(st, a), addresses \ {a})

\* the selection applied to the state it was projected on
select_transactions_Applying(P, max_count, st, ord) ==
    LET st1 == WithAccounts(st, PooledSenders(P))
        result == SelectRounds(P, max_count,
                        [a \in PooledSenders(P) |-> st1[a]], {}, <<>>, ord)
    IN  [selected |-> result, state |-> apply_block(st1, result).state]

\* [selected, state]; ord is the iteration order of txs
select_transactions(P, max_count, st, ord) ==
    LET st1 == WithAccounts(st, PooledSenders(P))
    IN  [selected |-> SelectRounds(P, max_count,
                        [a \in PooledSenders(P) |-> st1[a]], {}, <<>>, ord),
         state |-> st1]

IsStillValid_BalanceOnly(tx, sender_state) ==
    sender_state.balance >= saturating_add(tx.amount, tx.fee)

\* has_sufficient_balance && has_valid_nonce
IsStillValid(tx, sender_state) ==
    /\ sender_state.balance >= saturating_add(tx.amount, tx.fee)
    /\ tx.nonce = sender_state.nonce

\* [pool, state]: every pooled transaction's is_valid is set again from the
\* state, which gets an account for every sender it is asked about
revalidate_transactions(P, st) ==
    LET st1 == WithAccounts(st, PooledSenders(P))
    IN  [pool |-> [P EXCEPT !.txs = [h \in DOMAIN P.txs |->
                        [P.txs[h] EXCEPT !.is_valid =
                            IsStillValid(P.txs[h].transaction,
                                         st1[P.txs[h].transaction.sender])]]],
         state |-> st1]

(***************************************************************************)
(* The inputs.  Two pools are explored: one configured as the replacement  *)
(* tests configure it (no fee floor), one with a fee floor of 1 per byte.  *)
(* The memory limit is a few transactions wide so that the memory paths    *)
(* are taken.                                                              *)
(***************************************************************************)
Senders == {"A", "B"}
Recipient == "R"

TestConfig ==
    [max_size |-> 2, expiry_time |-> 1, max_memory |-> 2000,
     min_fee_per_byte |-> 0, replacement_fee_bump |-> 10]
FloorConfig ==
    [max_size |-> 2, expiry_time |-> 1, max_memory |-> 2000,
     min_fee_per_byte |-> 1, replacement_fee_bump |-> 5]
Configs == {TestConfig, FloorConfig}

\* the accounts the caller's state starts with
GenesisState == [a \in Senders |->
    IF a = "A" THEN [balance |-> 310, nonce |-> 0] ELSE [balance |-> U64_MAX, nonce |-> 0]]

Fees == IF config.min_fee_per_byte = 0 THEN {50, 54, 55, 60} ELSE {100, 200, 220, 400}
BigData == 1900
\* a fee above u64::MAX / bump, and one above it by 5%
HugeFees == {U64_MAX \div 2, U64_MAX \div 2 + U64_MAX \div 40}

\* A submits every fee at nonce 0, one fee at the later nonces, and under the fee floor one
\* transaction with data; B submits two fees and, without the fee floor,
\* fees so large that the product of the replacement threshold saturates
\* (HugeFees) and fees at the top of the u64 range, where its sum does
WellFormed ==
    {Transaction(1, "A", Recipient, 100, f, 0, 0, TRUE) : f \in Fees}
    \cup {Transaction(1, "A", Recipient, 100, f, n, 0, TRUE) :
            f \in {54, 200} \cap Fees, n \in 1..MaxNonce}
    \cup {Transaction(1, "B", Recipient, 100, f, 0, 0, TRUE) : f \in {60, 200, 400} \cap Fees}
    \cup (IF config.min_fee_per_byte = 0
          THEN {Transaction(1, "B", Recipient, 100, f, 0, 0, TRUE) : f \in HugeFees}
               \cup {Transaction(1, "B", Recipient, 100, U64_MAX - 100, 0, 0, TRUE),
                     Transaction(1, "B", Recipient, 1, U64_MAX - 1, 0, 0, TRUE)}
          ELSE {Transaction(1, "A", Recipient, 100, 220, 0, BigData, TRUE)})

\* one transaction for each rule of Transaction::verify
Malformed ==
    {Transaction(2, "A", Recipient, 100, 200, 0, 0, TRUE),
     Transaction(1, "A", Recipient, 0, 200, 0, 0, TRUE),
     Transaction(1, "A", Recipient, 100, 0, 0, 0, TRUE),
     Transaction(1, "A", Recipient, 100, 200, 0, MAX_DATA_LEN + 1, TRUE),
     Transaction(1, "A", "A", 100, 200, 0, 0, TRUE),
     Transaction(1, "A", Recipient, U64_MAX, 200, 0, 0, TRUE),
     Transaction(1, "A", Recipient, 100, 200, 0, 0, FALSE)}

Universe == WellFormed \cup Malformed

\* what apply_transaction is handed: it checks nothing but nonce and balance,
\* so also a transfer to an account already at u64::MAX and one whose amount
\* plus fee does not fit in a u64, from an account that holds u64::MAX
ApplyUniverse ==
    Universe \cup {Transaction(1, "A", "B", 100, 200, 0, 0, TRUE),
                   Transaction(1, "B", Recipient, U64_MAX, 200, 0, 0, TRUE)}

\* the transactions batches are made of: some of the well-formed ones, one
\* with a bad signature and, where no fee floor refuses it, one with data
BatchUniverse ==
    {tx \in WellFormed : tx.data_len = 0 /\ tx.fee \in {54, 60, 200, 220}}
    \cup {Transaction(1, "A", Recipient, 100, 200, 0, 0, FALSE)}
    \cup (IF config.min_fee_per_byte = 0
          THEN {Transaction(1, "B", Recipient, 100, 60, 0, BigData, TRUE)}
          ELSE {})

Batches == UNION {[1..n -> BatchUniverse] : n \in 1..MaxBatch}

SendersOf(transactions) == {transactions[i].sender : i \in 1..Len(transactions)}

(***************************************************************************)
(* The ledger store (src/src/storage/mod.rs).  db holds the column         *)
(* families; each is a map from key to value, and an iterator walks the    *)
(* keys in bytewise order, RocksDB's default comparator.                   *)
(***************************************************************************)
\* u64::to_le_bytes: eight bytes, least significant first
RECURSIVE LeBytes(_, _)
LeBytes(n, count) ==
    IF count = 0 THEN <<>> ELSE <<n % 256>> \o LeBytes(n \div 256, count - 1)

to_le_bytes(n) == LeBytes(n, 8)

\* u64::from_le_bytes
RECURSIVE from_le_bytes(_)
from_le_bytes(bytes) ==
    IF bytes = <<>> THEN 0 ELSE Head(bytes) + 256 * from_le_bytes(Tail(bytes))

\* bytewise order of two keys: the first differing byte decides, a proper
\* prefix comes first
RECURSIVE BytesLess(_, _)
BytesLess(a, b) ==
    IF b = <<>> THEN FALSE
    ELSE IF a = <<>> THEN TRUE
    ELSE IF Head(a) # Head(b) THEN Head(a) < Head(b)
    ELSE BytesLess(Tail(a), Tail(b))

\* WriteBatch::put_cf and DB::get_cf on one column family
put_cf(cf, key, value) ==
    [k \in DOMAIN cf \cup {key} |-> IF k = key THEN value ELSE cf[k]]

get_cf(cf, key) == IF key \in DOMAIN cf THEN Some(cf[key]) ELSE None

\* the first key of an iterator in IteratorMode::End: the last in bytewise
\* order
LastKey(cf) ==
    CHOOSE k \in DOMAIN cf : \A other \in DOMAIN cf : ~BytesLess(k, other)

\* a Hash is the preimage SHA-256 was given, as the sequence of its fields;
\* [0u8; 32] is the hash of nothing
ZeroHash == <<>>

\* block::compute_merkle_root: all zeros for no transactions, else the root
\* of the transaction hashes
compute_merkle_root(transactions) ==
    IF transactions = <<>> THEN ZeroHash
    ELSE [i \in 1..Len(transactions) |-> hash(transactions[i])]

\* Block::new with the clock reading `timestamp`; the header is not signed
Block_new(prev_hash, height, transactions, validator, timestamp) ==
    [header |-> [version |-> 1, prev_hash |-> prev_hash,
                 merkle_root |-> compute_merkle_root(transactions),
                 timestamp |-> timestamp, height |-> height,
                 validator |-> validator, signature |-> 0],
     transactions |-> transactions]

\* BlockHeader::hash: SHA-256 of serialize_for_hashing, which leaves the
\* signature out
header_hash(header) ==
    <<header.version>> \o header.prev_hash
        \o <<header.merkle_root, header.timestamp, header.height, header.validator>>

\* bincode::encode_to_vec of a transaction and of a block: the fields in
\* declaration order, a Vec preceded by its length
encode_transaction(tx) ==
    <<tx.version, tx.sender, tx.recipient, tx.amount, tx.fee, tx.nonce,
      tx.data_len, tx.sig_ok>>

RECURSIVE encode_transactions(_)
encode_transactions(transactions) ==
    IF transactions = <<>> THEN <<>>
    ELSE encode_transaction(Head(transactions))
            \o encode_transactions(Tail(transactions))

encode_block(block) ==
    <<block.header.version, block.header.prev_hash, block.header.merkle_root,
      block.header.timestamp, block.header.height, block.header.validator,
      block.header.signature, Len(block.transactions)>>
        \o encode_transactions(block.transactions)

\* bincode::decode_from_slice
decode_transaction(bytes, at) ==
    Transaction(bytes[at], bytes[at + 1], bytes[at + 2], bytes[at + 3],
                bytes[at + 4], bytes[at + 5], bytes[at + 6], bytes[at + 7])

decode_block(bytes) ==
    [header |-> [version |-> bytes[1], prev_hash |-> bytes[2],
                 merkle_root |-> bytes[3], timestamp |-> bytes[4],
                 height |-> bytes[5], validator |-> bytes[6],
                 signature |-> bytes[7]],
     transactions |-> [i \in 1..bytes[8] |-> decode_transaction(bytes, 9 + 8 * (i - 1))]]

\* TxLocation and its encoding
TxLocation(block_hash, index) == [block_hash |-> block_hash, index |-> index]

encode_location(tx_location) == <<tx_location.block_hash, tx_location.index>>

decode_location(bytes) == TxLocation(bytes[1], bytes[2])

EmptyDb ==
    [blocks |-> <<>>, block_height |-> <<>>, timestamp_index |-> <<>>,
     transactions |-> <<>>]

\* the loop of store_block over block.transactions: one location per
\* transaction, a later one replacing an earlier one of the same hash
LocationIndex_OneBased(i) == i + 1

\* `i as u32`
LocationIndex(i) == i

RECURSIVE IndexTransactions(_, _, _, _)
IndexTransactions(cf, block_hash, transactions, i) ==
    IF i >= Len(transactions) THEN cf
    ELSE IndexTransactions(
            put_cf(cf, hash(transactions[i + 1]),
                   encode_location(TxLocation(block_hash, LocationIndex(i)))),
            block_hash, transactions, i + 1)

\* DB::write(batch): the column families as the batch leaves them replace
\* the stored ones in one step; the variant shows the index entries before
\* the entry in blocks
write_IndexesFirst(d, batch) == [batch EXCEPT !.blocks = d.blocks]

write(d, batch) == batch

\* store_block: the four kinds of entry, written in one batch
store_block(d, block) ==
    LET block_hash == header_hash(block.header)
        height_bytes == to_le_bytes(block.header.height)
        timestamp_bytes == to_le_bytes(block.header.timestamp)
    IN  write(d,
          [blocks |-> put_cf(d.blocks, block_hash, encode_block(block)),
           block_height |-> put_cf(d.block_height, height_bytes, block_hash),
           timestamp_index |->
              put_cf(d.timestamp_index, timestamp_bytes \o height_bytes, block_hash),
           transactions |->
              IndexTransactions(d.transactions, block_hash, block.transactions, 0)])

\* the readers return [ok, value]: value is an Option for the getters, the
\* height or the verdict otherwise; ok = FALSE stands for Err
Ok(value) == [ok |-> TRUE, value |-> value]
Err(kind) == [ok |-> FALSE, value |-> kind]

get_block(d, block_hash) ==
    LET found == get_cf(d.blocks, block_hash)
    IN  IF found = None THEN Ok(None) ELSE Ok(Some(decode_block(Unwrap(found))))

get_block_by_height(d, height) ==
    LET found == get_cf(d.block_height, to_le_bytes(height))
    IN  IF found = None THEN Ok(None) ELSE get_block(d, Unwrap(found))

get_block_hash_by_height(d, height) ==
    LET found == get_cf(d.block_height, to_le_bytes(height))
    IN  IF found = None THEN Err("NotFound") ELSE Ok(Unwrap(found))

get_latest_height(d) ==
    IF DOMAIN d.block_height = {} THEN Ok(0)
    ELSE LET key == LastKey(d.block_height)
         IN  IF Len(key) # 8 THEN Err("Database") ELSE Ok(from_le_bytes(key))

\* the keys an iterator yields, in bytewise order
RECURSIVE IterateKeys(_)
IterateKeys(keys) ==
    IF keys = {} THEN <<>>
    ELSE LET first == CHOOSE k \in keys : \A other \in keys : ~BytesLess(other, k)
         IN  <<first>> \o IterateKeys(keys \ {first})

\* the loop of get_blocks_by_time_range over the keys still to come
RECURSIVE ScanTimeRange(_, _, _, _, _, _)
ScanTimeRange(d, keys, start_time, end_time, limit, blocks) ==
    IF keys = <<>> THEN blocks
    ELSE LET key == Head(keys)
             key_timestamp == from_le_bytes(SubSeq(key, 1, 8))
             block == get_block(d, d.timestamp_index[key]).value
         IN  IF Len(key) < 8
             THEN ScanTimeRange(d, Tail(keys), start_time, end_time, limit, blocks)
             ELSE IF key_timestamp > end_time THEN blocks
             ELSE IF key_timestamp < start_time \/ block = None
             THEN ScanTimeRange(d, Tail(keys), start_time, end_time, limit, blocks)
             ELSE IF Len(blocks) + 1 >= limit THEN Append(blocks, Unwrap(block))
             ELSE ScanTimeRange(d, Tail(keys), start_time, end_time, limit,
                                Append(blocks, Unwrap(block)))

\* IteratorMode::From(start_key, Forward): the keys not below start_key
get_blocks_by_time_range(d, start_time, end_time, limit) ==
    LET start_key == to_le_bytes(start_time)
    IN  Ok(ScanTimeRange(d,
            IterateKeys({k \in DOMAIN d.timestamp_index : ~BytesLess(k, start_key)}),
            start_time, end_time, limit, <<>>))

\* IteratorMode::Start: every key is looked at
count_blocks_by_time_range(d, start_time, end_time) ==
    Ok(Cardinality({k \in DOMAIN d.timestamp_index :
            /\ Len(k) >= 8
            /\ from_le_bytes(SubSeq(k, 1, 8)) >= start_time
            /\ from_le_bytes(SubSeq(k, 1, 8)) <= end_time}))

\* BlockStore::get_latest_block (src/src/storage/block_store.rs)
get_latest_block(d) ==
    LET latest_height == get_latest_height(d)
    IN  IF ~latest_height.ok THEN latest_height
        ELSE IF latest_height.value = 0 THEN Ok(None)
        ELSE get_block_by_height(d, latest_height.value)

\* BlockchainStorage::get_transaction
storage_get_transaction(d, tx_hash) ==
    LET found == get_cf(d.transactions, tx_hash)
    IN  IF found = None THEN Ok(None)
        ELSE LET tx_location == decode_location(Unwrap(found))
                 block == get_block(d, tx_location.block_hash).value
             IN  IF block = None THEN Err("NotFound")
                 ELSE IF tx_location.index < Len(Unwrap(block).transactions)
                 THEN Ok(Some(Unwrap(block).transactions[tx_location.index + 1]))
                 ELSE Err("Database")

\* the loop of verify_integrity, from `height` down to 0
RECURSIVE VerifyFrom(_, _)
VerifyFrom(d, height) ==
    LET current_hash == get_block_hash_by_height(d, height)
    IN  IF ~current_hash.ok THEN current_hash
        ELSE LET block == get_block(d, current_hash.value).value
             IN  IF block = None THEN Err("Database")
                 ELSE IF height > 0
                 THEN LET expected_prev_hash == get_block_hash_by_height(d, height - 1)
                      IN  IF ~expected_prev_hash.ok THEN expected_prev_hash
                          ELSE IF Unwrap(block).header.prev_hash # expected_prev_hash.value
                          THEN Ok(FALSE)
                          ELSE VerifyFrom(d, height - 1)
                 ELSE IF Unwrap(block).header.prev_hash # ZeroHash THEN Ok(FALSE)
                 ELSE Ok(TRUE)

verify_integrity(d) ==
    LET latest_height == get_latest_height(d)
    IN  IF ~latest_height.ok THEN latest_height
        ELSE IF latest_height.value = 0 THEN Ok(TRUE)
        ELSE VerifyFrom(d, latest_height.value)

\* the blocks handed to store_block: built by Block::new at heights on both
\* sides of a byte boundary of the height key, on top of the all-zero hash,
\* of the hash stored one height below, or of a hash that is not stored
StoreHeights == {0, 1, 256}
Timestamps == {1000, 2000}
Validator == "V"
TestTransaction(index) ==
    Transaction(1, (IF index = 1 THEN "A" ELSE "B"), Recipient, 100 * index, 10, 0, 0, TRUE)
BlockBodies ==
    {<<>>, <<TestTransaction(1), TestTransaction(2), TestTransaction(1)>>}
StrayHash == header_hash(Block_new(ZeroHash, 7, <<>>, Validator, 1000).header)
PrevHashes(d, height) ==
    {ZeroHash, StrayHash}
        \cup (IF height > 0 /\ get_block_hash_by_height(d, height - 1).ok
              THEN {get_block_hash_by_height(d, height - 1).value} ELSE {})
BlockUniverse(d) ==
    {Block_new(prev_hash, height, transactions, Validator, timestamp) :
        prev_hash \in UNION {PrevHashes(d, h) : h \in StoreHeights},
        height \in StoreHeights, transactions \in BlockBodies,
        timestamp \in Timestamps}

\* the plain chain: block `height` has no transactions and is built on the
\* hash of the block below, the genesis block on the all-zero hash
ChainHash(height) ==
    [i \in 1..5 * (height + 1) |->
        IF i <= height + 1 THEN 1
        ELSE LET field == (i - height - 2) % 4
             IN  IF field = 0 THEN ZeroHash
                 ELSE IF field = 1 THEN 1000
                 ELSE IF field = 2 THEN (i - height - 2) \div 4
                 ELSE Validator]

ChainBlock(height) ==
    Block_new(IF height = 0 THEN ZeroHash ELSE ChainHash(height - 1),
              height, <<>>, Validator, 1000)

(***************************************************************************)
(* Schema migration (src/src/storage/migration.rs).  migration holds the   *)
(* stored "schema_version" value and the position of check_and_migrate.    *)
(***************************************************************************)
CURRENT_SCHEMA_VERSION == 1

\* get_schema_version on the stored value: absent is version 0, fewer than
\* four bytes an error, else the first four bytes, little-endian
get_schema_version(stored) ==
    IF stored = None THEN Ok(0)
    ELSE IF Len(Unwrap(stored)) < 4 THEN Err("Database")
    ELSE Ok(from_le_bytes(SubSeq(Unwrap(stored), 1, 4)))

set_schema_version_Short(version) == Some(LeBytes(version, 2))

\* the value set_schema_version puts
set_schema_version(version) == Some(LeBytes(version, 4))

\* available_migrations(): migrate_fn of the one registered step returns Ok
available_migrations ==
    <<[from_version |-> 0, to_version |-> 1, migrate_fn |-> TRUE]>>

\* Iterator::find over the migrations
FindMigration(Test(_)) ==
    LET hits == {i \in 1..Len(available_migrations) : Test(available_migrations[i])}
    IN  IF hits = {} THEN None
        ELSE Some(available_migrations[CHOOSE i \in hits : \A j \in hits : i <= j])

\* the loop of check_and_migrate that builds the migration path
RECURSIVE BuildPath(_, _, _)
BuildPath(version, path, allow_version_skipping) ==
    IF ~(version < CURRENT_SCHEMA_VERSION) THEN Ok(path)
    ELSE LET next == FindMigration(LAMBDA m : m.from_version = version)
             skip_migration ==
                FindMigration(LAMBDA m : m.from_version < version /\ m.to_version > version)
         IN  IF next # None
             THEN BuildPath(Unwrap(next).to_version, Append(path, Unwrap(next)),
                            allow_version_skipping)
             ELSE IF allow_version_skipping /\ skip_migration # None
             THEN BuildPath(Unwrap(skip_migration).to_version,
                            Append(path, Unwrap(skip_migration)),
                            allow_version_skipping)
             ELSE Err("Database")

\* no call of check_and_migrate has returned since the value was last set
NoResult == Err("none")

MigrationIdle ==
    [schema_version |-> None, pc |-> "idle", config |-> None, path |-> <<>>,
     entry_version |-> 0, result |-> NoResult, writes |-> 0, backups |-> 0,
     calls |-> 0]

\* last_result is what the admission call that produced the current state
\* returned; NoCall when the last operation was not an admission
NoCall == "none"

(***************************************************************************)
(* The state machine.                                                      *)
(***************************************************************************)
Init ==
    /\ config \in Configs
    /\ txs = <<>>
    /\ by_fee = <<>>
    /\ by_address = <<>>
    /\ memory_usage = 0
    /\ state = GenesisState
    /\ now = 0
    /\ last_result = NoCall
    /\ selected = <<>>
    /\ db = EmptyDb
    /\ migration = MigrationIdle
    /\ applied = <<>>

SetPool(P) ==
    /\ txs' = P.txs
    /\ by_fee' = P.by_fee
    /\ by_address' = P.by_address
    /\ memory_usage' = P.memory_usage

AddTransaction ==
    /\ now < MaxTime
    /\ \E tx \in Universe, ord \in Orders(DOMAIN txs) :
        LET r == add_transaction(Pool, tx, state, now, ord)
        IN  /\ SetPool(r.pool)
            /\ state' = r.state
            /\ now' = IF r.result = "Ok" THEN now + 1 ELSE now
            /\ last_result' = r.result
    /\ UNCHANGED config
    /\ selected' = <<>>
    /\ UNCHANGED db
    /\ UNCHANGED migration
    /\ UNCHANGED applied

\* allow_replacement = TRUE; with FALSE the call is add_transaction
AddTransactionWithReplacement ==
    /\ now < MaxTime
    /\ \E tx \in Universe, ord \in Orders(DOMAIN txs) :
        LET r == add_transaction_with_replacement(Pool, tx, state, TRUE, now, ord)
        IN  /\ SetPool(r.pool)
            /\ state' = r.state
            /\ now' = IF r.result = "Ok" THEN now + 1 ELSE now
            /\ last_result' = r.result
    /\ UNCHANGED config
    /\ selected' = <<>>
    /\ UNCHANGED db
    /\ UNCHANGED migration
    /\ UNCHANGED applied

AddTransactionsBatch ==
    /\ \E transactions \in Batches :
       \E senders \in Orders(SendersOf(transactions)) :
        /\ now + Len(transactions) <= MaxTime
        /\ LET r == add_transactions_batch(Pool, transactions, state, now, senders)
           IN  /\ SetPool(r.pool)
               /\ state' = r.state
               /\ now' = r.t
               /\ last_result' = IF r.failures = <<>> THEN "BatchOk"
                                  ELSE IF r.successes = <<>> THEN "BatchNoneAccepted"
                                  ELSE "BatchPartial"
    /\ UNCHANGED config
    /\ selected' = <<>>
    /\ UNCHANGED db
    /\ UNCHANGED migration
    /\ UNCHANGED applied

\* the hashes remove_transaction is called with: those pooled, and one that
\* is not
RemovableHashes ==
    DOMAIN txs \cup {hash(CHOOSE tx \in Universe : hash(tx) \notin DOMAIN txs)}

RemoveTransaction ==
    /\ \E h \in RemovableHashes :
        LET r == remove_transaction(Pool, h)
        IN  /\ SetPool(r.pool)
            /\ last_result' = NoCall
    /\ UNCHANGED <<config, state, now>>
    /\ selected' = <<>>
    /\ UNCHANGED db
    /\ UNCHANGED migration
    /\ UNCHANGED applied

OptimizeMemory ==
    /\ \E ord \in Orders(DOMAIN txs) :
        LET r == optimize_memory(Pool, ord)
        IN  /\ SetPool(r.pool)
            /\ last_result' = NoCall
    /\ UNCHANGED <<config, state, now>>
    /\ selected' = <<>>
    /\ UNCHANGED db
    /\ UNCHANGED migration
    /\ UNCHANGED applied

PerformMaintenance ==
    /\ \E ord \in Orders(DOMAIN txs) :
        LET r == perform_maintenance(Pool, now, ord)
        IN  /\ SetPool(r.pool)
            /\ last_result' = NoCall
    /\ UNCHANGED <<config, state, now>>
    /\ selected' = <<>>
    /\ UNCHANGED db
    /\ UNCHANGED migration
    /\ UNCHANGED applied

\* the transactions of a block that apply_block applied before it stopped
RECURSIVE AppliedOf(_, _)
AppliedOf(st, transactions) ==
    IF transactions = <<>> THEN <<>>
    ELSE LET r == apply_transaction(st, Head(transactions))
         IN  IF ~r.ok THEN <<>>
             ELSE <<Head(transactions)>> \o AppliedOf(r.state, Tail(transactions))

\* the caller applies a pooled transaction to its state (a block is
\* produced from the pool); the pool is not told
ApplyTransaction ==
    /\ now < MaxTime
    /\ \E h \in DOMAIN txs :
        LET r == apply_transaction(state, txs[h].transaction)
        IN  /\ state' = r.state
            /\ now' = IF r.ok THEN now + 1 ELSE now
            /\ last_result' = NoCall
            /\ applied' = IF r.ok THEN Append(applied, txs[h].transaction) ELSE applied
    /\ UNCHANGED <<config, txs, by_fee, by_address, memory_usage>>
    /\ selected' = <<>>
    /\ UNCHANGED db
    /\ UNCHANGED migration

\* a block made of pooled transactions is applied to the state
BlocksOf(pooled) == UNION {[1..n -> pooled] : n \in 1..MaxBlock}

ApplyBlock ==
    /\ now < MaxTime
    /\ \E transactions \in BlocksOf({txs[h].transaction : h \in DOMAIN txs}) :
        LET r == apply_block(state, transactions)
        IN  /\ state' = r.state
            /\ now' = IF r.state # state THEN now + 1 ELSE now
            /\ last_result' = NoCall
            /\ applied' = applied \o AppliedOf(state, transactions)
    /\ UNCHANGED <<config, txs, by_fee, by_address, memory_usage>>
    /\ selected' = <<>>
    /\ UNCHANGED db
    /\ UNCHANGED migration

\* the caller sets the nonce of A's account in its own state, as the tests
\* do between calls
SetNonce ==
    /\ \E a \in {"A"}, n \in 0..MaxNonce :
        /\ state[a].nonce # n
        /\ state' = [state EXCEPT ![a].nonce = n]
    /\ last_result' = NoCall
    /\ UNCHANGED <<config, txs, by_fee, by_address, memory_usage, now>>
    /\ selected' = <<>>
    /\ UNCHANGED db
    /\ UNCHANGED migration
    /\ UNCHANGED applied

\* revalidate_transactions with the caller's state, as after a block
RevalidateTransactions ==
    /\ now < MaxTime
    /\ LET r == revalidate_transactions(Pool, state)
       IN  /\ SetPool(r.pool)
           /\ state' = r.state
    /\ now' = now + 1
    /\ last_result' = NoCall
    /\ UNCHANGED config
    /\ selected' = <<>>
    /\ UNCHANGED db
    /\ UNCHANGED migration
    /\ UNCHANGED applied

\* time passes
Tick ==
    /\ now < MaxTime
    /\ now' = now + 1
    /\ last_result' = NoCall
    /\ UNCHANGED <<config, txs, by_fee, by_address, memory_usage, state>>
    /\ selected' = <<>>
    /\ UNCHANGED db
    /\ UNCHANGED migration
    /\ UNCHANGED applied

\* select_transactions with the caller's state; the pool is left as it is
SelectTransactions ==
    /\ \E max_count \in 0..MaxCount, ord \in Orders(DOMAIN txs) :
        LET r == select_transactions(Pool, max_count, state, ord)
        IN  /\ selected' = r.selected
            /\ state' = r.state
            /\ last_result' = NoCall
    /\ UNCHANGED <<config, txs, by_fee, by_address, memory_usage, now>>
    /\ UNCHANGED db
    /\ UNCHANGED migration
    /\ UNCHANGED applied

Next ==
    \/ AddTransaction
    \/ AddTransactionWithReplacement
    \/ AddTransactionsBatch
    \/ RemoveTransaction
    \/ OptimizeMemory
    \/ PerformMaintenance
    \/ ApplyTransaction
    \/ ApplyBlock
    \/ SelectTransactions
    \/ SetNonce
    \/ RevalidateTransactions
    \/ Tick

Spec == Init /\ [][Next]_vars

(***************************************************************************)
(* The ledger store on its own: the pool and the accounts stay as          *)
(* constructed, blocks are stored.  Any block of BlockUniverse may be      *)
(* stored while the clock runs; the plain chain is extended block by block *)
(* up to ChainLength blocks, and the full chain is given one more block.   *)
(***************************************************************************)
StoreInit ==
    /\ config = TestConfig
    /\ txs = <<>>
    /\ by_fee = <<>>
    /\ by_address = <<>>
    /\ memory_usage = 0
    /\ state = GenesisState
    /\ last_result = NoCall
    /\ selected = <<>>
    /\ db = EmptyDb
    /\ now = 0
    /\ migration = MigrationIdle
    /\ applied = <<>>

StoreBlock ==
    /\ now < MaxTime
    /\ \E block \in BlockUniverse(db) : db' = store_block(db, block)
    /\ now' = now + 1
    /\ UNCHANGED <<config, txs, by_fee, by_address, memory_usage, state,
                   last_result, selected>>
    /\ UNCHANGED migration
    /\ UNCHANGED applied

ExtendChain ==
    LET length == Cardinality(DOMAIN db.blocks)
    IN  /\ now \in {0, MaxTime}
        /\ length < ChainLength
        /\ Cardinality(DOMAIN db.block_height) = length
        /\ length > 0 =>
              get_block_hash_by_height(db, length - 1) = Ok(ChainHash(length - 1))
        /\ db' = store_block(db, ChainBlock(length))
        /\ now' = IF length + 1 = ChainLength THEN MaxTime - 1 ELSE MaxTime
        /\ UNCHANGED <<config, txs, by_fee, by_address, memory_usage, state,
                       last_result, selected>>
        /\ UNCHANGED migration
        /\ UNCHANGED applied

StoreNext ==
    \/ StoreBlock
    \/ ExtendChain

StoreSpec == StoreInit /\ [][StoreNext]_vars

(***************************************************************************)
(* Schema migration on its own: pool, accounts and ledger stay as          *)
(* constructed.  check_and_migrate is called up to MaxCalls times and runs *)
(* step by step; between calls the stored version may be set directly, as  *)
(* the tests do.                                                           *)
(***************************************************************************)
MigrationInit ==
    /\ StoreInit

\* the return of check_and_migrate
Return(m, result) == [m EXCEPT !.pc = "idle", !.result = result, !.path = <<>>]

\* after the backup, or without one: build the path, or fail
WithPath(m) ==
    LET path == BuildPath(m.entry_version, <<>>, Unwrap(m.config).allow_version_skipping)
    IN  IF ~path.ok THEN Return(m, path)
        ELSE IF path.value = <<>> THEN Return(m, Ok(TRUE))
        ELSE [m EXCEPT !.pc = "migrate", !.path = path.value]

IsNewer_Never(current_version) == FALSE

\* current_version > CURRENT_SCHEMA_VERSION
IsNewer(current_version) == current_version > CURRENT_SCHEMA_VERSION

\* check_and_migrate is entered: the version is read and compared
CheckAndMigrate ==
    /\ migration.pc = "idle"
    /\ migration.calls < MaxCalls
    /\ \E backup_before_migration \in BOOLEAN, allow_version_skipping \in BOOLEAN :
        LET current_version == get_schema_version(migration.schema_version)
            m == [migration EXCEPT
                    !.calls = @ + 1, !.writes = 0, !.backups = 0,
                    !.config = Some([backup_before_migration |-> backup_before_migration,
                                     allow_version_skipping |-> allow_version_skipping]),
                    !.entry_version = IF current_version.ok THEN current_version.value ELSE 0]
        IN  migration' =
                IF ~current_version.ok THEN Return(m, current_version)
                ELSE IF current_version.value = CURRENT_SCHEMA_VERSION
                THEN Return(m, Ok(FALSE))
                ELSE IF IsNewer(current_version.value)
                THEN Return(m, Err("Database"))
                ELSE IF backup_before_migration THEN [m EXCEPT !.pc = "backup"]
                ELSE WithPath(m)
    /\ UNCHANGED <<config, txs, by_fee, by_address, memory_usage, state, now,
                   last_result, selected, db>>
    /\ UNCHANGED applied

\* storage.create_backup(..)?: the backup engine may fail
CreateBackup ==
    /\ migration.pc = "backup"
    /\ \E created \in BOOLEAN :
        migration' = IF created THEN WithPath([migration EXCEPT !.backups = @ + 1])
                     ELSE Return(migration, Err("Backup"))
    /\ UNCHANGED <<config, txs, by_fee, by_address, memory_usage, state, now,
                   last_result, selected, db>>
    /\ UNCHANGED applied

\* (migration.migrate_fn)(storage)?
RunMigration ==
    /\ migration.pc = "migrate"
    /\ migration' = IF Head(migration.path).migrate_fn
                     THEN [migration EXCEPT !.pc = "set_version"]
                     ELSE Return(migration, Err("Migration"))
    /\ UNCHANGED <<config, txs, by_fee, by_address, memory_usage, state, now,
                   last_result, selected, db>>
    /\ UNCHANGED applied

\* set_schema_version(db, migration.to_version)?, then the next step of the
\* path or Ok(true)
SetVersion ==
    /\ migration.pc = "set_version"
    /\ LET m == [migration EXCEPT
                    !.schema_version = set_schema_version(Head(migration.path).to_version),
                    !.writes = @ + 1, !.path = Tail(@)]
       IN  migration' = IF m.path = <<>> THEN Return(m, Ok(TRUE))
                        ELSE [m EXCEPT !.pc = "migrate"]
    /\ UNCHANGED <<config, txs, by_fee, by_address, memory_usage, state, now,
                   last_result, selected, db>>
    /\ UNCHANGED applied

\* the stored version is set directly between calls
SetSchemaVersion ==
    /\ migration.pc = "idle"
    /\ \E version \in 0..MaxVersion :
        /\ migration.schema_version # set_schema_version(version)
        /\ migration' = [migration EXCEPT !.schema_version = set_schema_version(version),
                                          !.result = NoResult]
    /\ UNCHANGED <<config, txs, by_fee, by_address, memory_usage, state, now,
                   last_result, selected, db>>
    /\ UNCHANGED applied

MigrationNext ==
    \/ CheckAndMigrate
    \/ CreateBackup
    \/ RunMigration
    \/ SetVersion
    \/ SetSchemaVersion

MigrationSpec == MigrationInit /\ [][MigrationNext]_vars

(***************************************************************************)
(* State application on its own: from the genesis state the caller applies *)
(* transactions and blocks of its choosing, pooled or not.  applied is the *)
(* history of the transactions apply_transaction returned Ok for.          *)
(***************************************************************************)
LedgerInit ==
    /\ Init

LedgerApplyTransaction ==
    /\ \E tx \in ApplyUniverse :
        LET r == apply_transaction(state, tx)
        IN  /\ state' = r.state
            /\ applied' = IF r.ok THEN Append(applied, tx) ELSE applied
    /\ UNCHANGED <<config, txs, by_fee, by_address, memory_usage, now, last_result,
                   selected, db, migration>>

LedgerApplyBlock ==
    /\ \E transactions \in BlocksOf(ApplyUniverse) :
        /\ Len(transactions) > 1
        /\ state' = apply_block(state, transactions).state
        /\ applied' = applied \o AppliedOf(state, transactions)
    /\ UNCHANGED <<config, txs, by_fee, by_address, memory_usage, now, last_result,
                   selected, db, migration>>

LedgerNext ==
    \/ LedgerApplyTransaction
    \/ LedgerApplyBlock

LedgerSpec == LedgerInit /\ [][LedgerNext]_vars

(***************************************************************************)
(* The claims.                                                             *)
(***************************************************************************)

\* C1: after any sequence of pool operations the number of pooled
\* transactions, len(), is at most config.max_size.
C1_LenWithinMaxSize == len(Pool) <= config.max_size

\* C2: max_memory is a hard cap: after every admission that succeeds
\* (add_transaction, add_transaction_with_replacement, a batch that accepted
\* an item) memory_usage() is at most config.max_memory.
C2_MemoryHardCap ==
    last_result \in {"Ok", "BatchOk", "BatchPartial"}
        => memory_usage <= config.max_memory

\* C3 (I3): for any sender at most one pooled transaction exists per nonce.
C3_OneTransactionPerSenderNonce ==
    \A h1, h2 \in DOMAIN txs :
        (/\ txs[h1].transaction.sender = txs[h2].transaction.sender
         /\ txs[h1].transaction.nonce = txs[h2].transaction.nonce) => h1 = h2

\* C4 (I4): every pooled transaction passes verify() and has
\* fee / estimate_size() >= config.min_fee_per_byte.
C4_VerifiedAndFeeFloor ==
    \A h \in DOMAIN txs :
        /\ verify(txs[h].transaction)
        /\ txs[h].transaction.fee \div estimate_size(txs[h].transaction)
              >= config.min_fee_per_byte

\* C5 (I1): the per-sender index and the primary index agree: every hash in
\* a sender's set is the hash of a pooled transaction of that sender, every
\* pooled transaction's hash is in its sender's set, and no sender maps to
\* an empty set.
C5_SenderIndexAgrees ==
    /\ \A a \in DOMAIN by_address :
        /\ by_address[a] # {}
        /\ \A h \in by_address[a] :
            h \in DOMAIN txs /\ txs[h].transaction.sender = a
    /\ \A h \in DOMAIN txs :
        /\ txs[h].transaction.sender \in DOMAIN by_address
        /\ h \in by_address[txs[h].transaction.sender]
        /\ hash(txs[h].transaction) = h

\* C5's case: a removal has left a hash in the fee index that no longer
\* resolves, while transactions of both senders are pooled
C5_Witness ==
    /\ \E i \in 1..Len(by_fee) : by_fee[i].tx_hash \notin DOMAIN txs
    /\ DOMAIN by_address = Senders

\* C6: an add_transaction that succeeds without evicting anything, followed
\* by remove_transaction of the same hash, restores len(), memory_usage()
\* and the per-sender index to their values before the add.
C6_AddThenRemoveRestores ==
    \A tx \in Universe : \A ord \in Orders(DOMAIN txs) :
        LET r == add_transaction(Pool, tx, state, now, ord)
            q == remove_transaction(r.pool, hash(tx)).pool
        IN  (r.result = "Ok" /\ len(r.pool) = len(Pool) + 1) =>
                /\ len(q) = len(Pool)
                /\ q.memory_usage = memory_usage
                /\ q.by_address = by_address

C9_ReplacementAtomic ==
    \A tx \in Universe : \A ord \in Orders(DOMAIN txs) :
        LET found == find_transaction_by_sender_and_nonce(Pool, tx.sender, tx.nonce, ord)
            e == Unwrap(found)
            r == add_transaction_with_replacement(Pool, tx, state, TRUE, now, ord)
        IN  (verify(tx) /\ hash(tx) \notin DOMAIN txs /\ found # None) =>
                IF r.result = "Ok"
                THEN hash(tx) \in DOMAIN r.pool.txs /\ hash(e) \notin DOMAIN r.pool.txs
                ELSE hash(e) \in DOMAIN r.pool.txs /\ hash(tx) \notin DOMAIN r.pool.txs

\* C10: a replacing transaction is admitted only if its nonce equals the
\* sender's current nonce in the supplied state, the sender's balance
\* covers amount + fee, and its fee per byte is at least min_fee_per_byte.
C10_ReplacementPassesAdmissionChecks ==
    \A tx \in Universe : \A ord \in Orders(DOMAIN txs) :
        LET found == find_transaction_by_sender_and_nonce(Pool, tx.sender, tx.nonce, ord)
            r == add_transaction_with_replacement(Pool, tx, state, TRUE, now, ord)
            sender_state == get_account_state(state, tx.sender)[tx.sender]
        IN  (verify(tx) /\ hash(tx) \notin DOMAIN txs /\ found # None
                /\ r.result = "Ok") =>
                /\ tx.nonce = sender_state.nonce
                /\ sender_state.balance >= tx.amount + tx.fee
                /\ tx.fee \div estimate_size(tx) >= config.min_fee_per_byte

\* C11 (P1): in the output of select_transactions, for every sender the
\* selected transactions appear in strictly increasing, consecutive nonce
\* order and the first one has the sender's nonce in state, whatever order
\* the transactions were admitted in.
C11_SequentialNonces ==
    \A a \in Senders :
        LET mine == SelectSeq(selected, LAMBDA tx : tx.sender = a)
        IN  \A i \in 1..Len(mine) : mine[i].nonce = state[a].nonce + (i - 1)

\* C11's case: two transactions of one sender have been selected in nonce
\* order although the one with the later nonce was admitted first
C11_Witness ==
    /\ Len(selected) = 2
    /\ selected[1].sender = selected[2].sender
    /\ selected[1].nonce + 1 = selected[2].nonce
    /\ txs[hash(selected[2])].added_time < txs[hash(selected[1])].added_time

\* C12 (P2): in the output of select_transactions, for every sender the sum
\* of amount + fee over the sender's selected transactions is at most the
\* sender's balance in state, at every point of the output.
C12_SelectionFunded ==
    LET spent[a \in Senders, k \in 0..Len(selected)] ==
            IF k = 0 THEN 0
            ELSE spent[a, k - 1]
                 + (IF selected[k].sender = a
                    THEN selected[k].amount + selected[k].fee ELSE 0)
    IN  \A a \in Senders : \A k \in 0..Len(selected) :
            spent[a, k] <= state[a].balance

\* C12's case: after the first transaction of a sender was selected, the
\* sender's next transaction is pooled and older than the transaction
\* selected second, with the same fee per byte, and it was passed over
\* because the sender's projected balance does not cover it
C12_Witness ==
    /\ Len(selected) = 2
    /\ selected[1].sender # selected[2].sender
    /\ \E h \in DOMAIN txs :
        /\ txs[h].transaction.sender = selected[1].sender
        /\ txs[h].transaction.nonce = selected[1].nonce + 1
        /\ txs[h].added_time < txs[hash(selected[2])].added_time
        /\ calculate_fee_per_byte(txs[h].transaction)
              = calculate_fee_per_byte(selected[2])
        /\ txs[h].transaction.amount + txs[h].transaction.fee
              <= state[selected[1].sender].balance
        /\ txs[h].transaction.amount + txs[h].transaction.fee
              > state[selected[1].sender].balance
                - (selected[1].amount + selected[1].fee)

\* C13 (P3, P4, T7): every element of the select_transactions output is,
\* when it is chosen, pooled, not yet selected, fitting the projected nonce
\* and balance of its sender, and a maximum under the order (fee per byte
\* descending, then added_time ascending) among all such transactions: no
\* fitting transaction has a higher fee per byte, and none with the same
\* fee per byte was admitted earlier.
C13_GreedySelection ==
    LET count[a \in Senders, k \in 0..Len(selected)] ==
            IF k = 0 THEN 0
            ELSE count[a, k - 1] + (IF selected[k].sender = a THEN 1 ELSE 0)
        spent[a \in Senders, k \in 0..Len(selected)] ==
            IF k = 0 THEN 0
            ELSE spent[a, k - 1]
                 + (IF selected[k].sender = a
                    THEN selected[k].amount + selected[k].fee ELSE 0)
        Fits(h, k) ==
            LET tx == txs[h].transaction
            IN  /\ \A i \in 1..(k - 1) : hash(selected[i]) # h
                /\ txs[h].is_valid
                /\ tx.nonce = state[tx.sender].nonce + count[tx.sender, k - 1]
                /\ tx.amount + tx.fee
                      <= state[tx.sender].balance - spent[tx.sender, k - 1]
    IN  \A k \in 1..Len(selected) :
            LET chosen == hash(selected[k])
            IN  /\ chosen \in DOMAIN txs
                /\ Fits(chosen, k)
                /\ \A h \in DOMAIN txs : Fits(h, k) =>
                    /\ txs[h].transaction.fee \div estimate_size(txs[h].transaction)
                          <= selected[k].fee \div estimate_size(selected[k])
                    /\ (txs[h].transaction.fee \div estimate_size(txs[h].transaction)
                          = selected[k].fee \div estimate_size(selected[k]))
                        => txs[h].added_time >= txs[chosen].added_time

\* C13's case: two transactions of different senders with the same fee per
\* byte were selected after the one with the highest fee per byte was
\* taken out: the output starts with the higher fee per byte although that
\* transaction is the newer one, or with the older of two equal ones
C13_Witness ==
    /\ Len(selected) = 2
    /\ selected[1].sender # selected[2].sender
    /\ \/ /\ calculate_fee_per_byte(selected[1]) > calculate_fee_per_byte(selected[2])
          /\ txs[hash(selected[1])].added_time > txs[hash(selected[2])].added_time
       \/ /\ calculate_fee_per_byte(selected[1]) = calculate_fee_per_byte(selected[2])
          /\ config.min_fee_per_byte = 1
          /\ txs[hash(selected[1])].added_time < txs[hash(selected[2])].added_time

AccountOf(st, a) == IF a \in DOMAIN st THEN st[a] ELSE AccountState_new

\* every account but those in `touched` has the same balance and nonce
SameElsewhere(st, after, touched) ==
    /\ DOMAIN st \subseteq DOMAIN after
    /\ \A a \in DOMAIN after \ touched : AccountOf(after, a) = AccountOf(st, a)

\* the nonce is the sender's and the balance covers amount + fee (the sum
\* taken in the integers)
Applicable(st, tx) ==
    /\ tx.nonce = AccountOf(st, tx.sender).nonce
    /\ AccountOf(st, tx.sender).balance - tx.amount >= tx.fee

\* the effect claimed of a successful apply
TransferEffect(st, tx, r) ==
    /\ r.ok
    /\ AccountOf(r.state, tx.sender).balance =
           AccountOf(st, tx.sender).balance - tx.amount - tx.fee
    /\ AccountOf(r.state, tx.sender).nonce = AccountOf(st, tx.sender).nonce + 1
    /\ AccountOf(r.state, tx.recipient).balance =
           saturating_add(AccountOf(st, tx.recipient).balance, tx.amount)
    /\ SameElsewhere(st, r.state, {tx.sender, tx.recipient})

\* C15 as stated: whenever the nonce is the sender's and the balance covers
\* amount + fee, apply_transaction succeeds, takes exactly amount + fee from
\* the sender, adds 1 to its nonce, gives the recipient amount (saturating)
\* and changes no other account.
C15_ExactEffect ==
    \A tx \in ApplyUniverse :
        Applicable(state, tx) =>
            TransferEffect(state, tx, apply_transaction(state, tx))

\* C15 amended: the above holds when sender and recipient differ; a transfer
\* to oneself succeeds too and costs the account the fee only.  The instance
\* of the specification: 1000 / 0 sending 100 with fee 10 ends at 890 / 1
\* and the recipient at 100.
C15_ExactEffectOnTransfer ==
    /\ \A tx \in ApplyUniverse :
          Applicable(state, tx) =>
            LET r == apply_transaction(state, tx)
            IN  IF tx.sender # tx.recipient THEN TransferEffect(state, tx, r)
                ELSE /\ r.ok
                     /\ r.state[tx.sender] =
                          [balance |-> state[tx.sender].balance - tx.fee,
                           nonce |-> state[tx.sender].nonce + 1]
                     /\ SameElsewhere(state, r.state, {tx.sender})
    /\ LET st == [a \in {"A"} |-> [balance |-> 1000, nonce |-> 0]]
           r == apply_transaction(st, Transaction(1, "A", Recipient, 100, 10, 0, 0, TRUE))
       IN  /\ r.ok
           /\ r.state = [a \in {"A", Recipient} |->
                           IF a = "A" THEN [balance |-> 890, nonce |-> 1]
                           ELSE [balance |-> 100, nonce |-> 0]]

\* a transfer has been applied (the recipient holds something) and another
\* one, to somebody else, is applicable now
C15_Witness ==
    /\ Recipient \in DOMAIN state
    /\ state[Recipient].balance > 0
    /\ \E tx \in ApplyUniverse :
          /\ tx.sender # tx.recipient
          /\ Applicable(state, tx)
          /\ tx.amount > 0

\* C16 as stated: apply_transaction fails when the nonce is not the sender's
\* (this is reported even if the balance is short as well) or when the
\* balance is below amount + fee, and a failing apply changes no account.
C16_FailsOnNonceOrBalance ==
    \A tx \in ApplyUniverse :
        LET r == apply_transaction(state, tx)
            sender == AccountOf(state, tx.sender)
        IN  /\ tx.nonce # sender.nonce => ~r.ok /\ r.error = "InvalidNonce"
            /\ sender.balance - tx.amount < tx.fee => ~r.ok
            /\ ~r.ok => SameElsewhere(state, r.state, {})

\* C16 amended: the balance is compared with the saturating sum of amount
\* and fee, so apply_transaction fails exactly when the nonce is not the
\* sender's (reported first) or the balance is below that sum; a sum beyond
\* u64::MAX is within reach of an account holding u64::MAX.  A failing apply
\* changes no account.
C16_FailsOnNonceOrSaturatedBalance ==
    \A tx \in ApplyUniverse :
        LET r == apply_transaction(state, tx)
            sender == AccountOf(state, tx.sender)
        IN  /\ tx.nonce # sender.nonce => ~r.ok /\ r.error = "InvalidNonce"
            /\ (tx.nonce = sender.nonce
                    /\ sender.balance < saturating_add(tx.amount, tx.fee))
                 => ~r.ok /\ r.error = "InsufficientBalance"
            /\ ~r.ok => \/ tx.nonce # sender.nonce
                        \/ sender.balance < saturating_add(tx.amount, tx.fee)
            /\ ~r.ok => SameElsewhere(state, r.state, {})

\* after a transfer was applied, some transaction has both the wrong nonce
\* and too large a cost, another the right nonce and too large a cost
C16_Witness ==
    /\ Recipient \in DOMAIN state
    /\ \E tx \in ApplyUniverse :
          /\ tx.nonce # state[tx.sender].nonce
          /\ state[tx.sender].balance < saturating_add(tx.amount, tx.fee)
    /\ \E tx \in ApplyUniverse :
          /\ tx.nonce = state[tx.sender].nonce
          /\ state[tx.sender].balance < saturating_add(tx.amount, tx.fee)

\* C17: if apply_block(block) returns an error, every account's balance and
\* nonce are as before the call.  Checked for the blocks of up to MaxBlock
\* transactions whose transactions all pass Block::validate.
C17_FailingBlockLeavesState ==
    \A transactions \in BlocksOf({tx \in ApplyUniverse : verify(tx)}) :
        LET r == apply_block(state, transactions)
        IN  (Block_validate(transactions) /\ ~r.ok)
                => SameElsewhere(state, r.state, {})

(***************************************************************************)
(* The ledger store (src/src/storage/mod.rs), under StoreSpec              *)
(***************************************************************************)
\* C18 (T4): once store_block(b) has returned, get_block(hash(b)) and
\* get_block_by_height(b.height) return b, and get_transaction(hash(tx))
\* returns, for every transaction tx of b, a transaction with that hash.
C18_StoredBlockIsRead ==
    \A b \in BlockUniverse(db) :
        LET d == store_block(db, b)
        IN  /\ get_block(d, header_hash(b.header)) = Ok(Some(b))
            /\ get_block_by_height(d, b.header.height) = Ok(Some(b))
            /\ \A i \in 1..Len(b.transactions) :
                  LET found == storage_get_transaction(d, hash(b.transactions[i]))
                  IN  /\ found.ok
                      /\ found.value # None
                      /\ hash(Unwrap(found.value)) = hash(b.transactions[i])

\* blocks are stored, at 256 too, and the last one stored is read back
\* with its transactions
C18_Witness ==
    /\ Cardinality(DOMAIN db.blocks) >= 2
    /\ get_block_by_height(db, 256).value # None
    /\ \E h \in DOMAIN db.transactions :
          storage_get_transaction(db, h).value # None

\* the heights of the blocks stored so far
StoredHeights == {decode_block(db.blocks[h]).header.height : h \in DOMAIN db.blocks}

\* C19: get_latest_height() returns the greatest height among the blocks
\* stored so far, whatever heights were stored, and 0 for the empty store;
\* the keys of the height index are the little-endian encodings of the
\* stored heights.
C19_LatestHeightIsGreatest ==
    /\ DOMAIN db.block_height = {to_le_bytes(h) : h \in StoredHeights}
    /\ get_latest_height(db) =
          Ok(IF StoredHeights = {} THEN 0
             ELSE CHOOSE h \in StoredHeights : \A other \in StoredHeights : other <= h)

\* the header of the block the height index points to at `height`
HeaderAt(height) ==
    decode_block(db.blocks[db.block_height[to_le_bytes(height)]]).header

\* the heights the height index has an entry for
IndexedHeights == {from_le_bytes(key) : key \in DOMAIN db.block_height}

\* the stored blocks form a chain: one block at each height 0 .. n, the
\* genesis block built on the all-zero hash, every other block on the hash
\* stored one height below
FormsChain ==
    /\ IndexedHeights # {}
    /\ IndexedHeights = 0..(Cardinality(IndexedHeights) - 1)
    /\ Cardinality(DOMAIN db.blocks) = Cardinality(IndexedHeights)
    /\ \A height \in IndexedHeights :
          HeaderAt(height).prev_hash =
              IF height = 0 THEN ZeroHash
              ELSE db.block_height[to_le_bytes(height - 1)]

\* some block's prev_hash differs from the hash stored one height below
BrokenLink ==
    \E height \in IndexedHeights :
        /\ height - 1 \in IndexedHeights
        /\ HeaderAt(height).prev_hash # db.block_height[to_le_bytes(height - 1)]

\* C20 (T5): verify_integrity() returns true on a store whose blocks form a
\* chain and false on a store with a broken link.
C20_VerifyIntegrity ==
    /\ FormsChain => verify_integrity(db) = Ok(TRUE)
    /\ BrokenLink => verify_integrity(db) = Ok(FALSE)

\* C21: store_block is atomic for readers.  In every state a reader can
\* observe, each value of block_height and of timestamp_index and each
\* transaction location names a block present in blocks, and every block
\* present in blocks has its height entry, its timestamp entry and a
\* location for each of its transactions: all of a block's entries are
\* there or none.
C21_AllEntriesOrNone ==
    /\ \A key \in DOMAIN db.block_height :
          db.block_height[key] \in DOMAIN db.blocks
    /\ \A key \in DOMAIN db.timestamp_index :
          db.timestamp_index[key] \in DOMAIN db.blocks
    /\ \A tx_hash \in DOMAIN db.transactions :
          decode_location(db.transactions[tx_hash]).block_hash \in DOMAIN db.blocks
    /\ \A block_hash \in DOMAIN db.blocks :
          LET block == decode_block(db.blocks[block_hash])
              height_bytes == to_le_bytes(block.header.height)
          IN  /\ height_bytes \in DOMAIN db.block_height
              /\ to_le_bytes(block.header.timestamp) \o height_bytes
                    \in DOMAIN db.timestamp_index
              /\ \A i \in 1..Len(block.transactions) :
                    hash(block.transactions[i]) \in DOMAIN db.transactions

\* two blocks with transactions have been stored, the second at the height
\* of the first
C21_Witness ==
    /\ Cardinality(DOMAIN db.blocks) >= 2
    /\ Cardinality(DOMAIN db.block_height) = 1
    /\ db.transactions # <<>>

\* C22: whenever check_and_migrate has returned Ok, the stored schema version
\* reads as CURRENT_SCHEMA_VERSION and the returned flag is true exactly when
\* the version stored at entry was below CURRENT_SCHEMA_VERSION; and a call
\* entered right after an Ok return, with nothing set in between, returns
\* Ok(false) at once, writes nothing and leaves the stored version as it was.
C22_MigratesToCurrent ==
    /\ [](migration.pc = "idle" /\ migration.result.ok =>
            /\ get_schema_version(migration.schema_version) = Ok(CURRENT_SCHEMA_VERSION)
            /\ migration.result.value = (migration.entry_version < CURRENT_SCHEMA_VERSION))
    /\ [][migration.pc = "idle" /\ migration.result.ok
             /\ migration'.calls = migration.calls + 1 =>
            /\ migration'.pc = "idle"
            /\ migration'.result = Ok(FALSE)
            /\ migration'.writes = 0
            /\ migration'.schema_version = migration.schema_version]_vars

\* a second call has returned Ok(false) right after a call that migrated from
\* the stored version to CURRENT_SCHEMA_VERSION
C22_Witness ==
    /\ migration.pc = "idle"
    /\ migration.calls = 2
    /\ migration.result = Ok(FALSE)
    /\ migration.schema_version = set_schema_version(CURRENT_SCHEMA_VERSION)
    /\ migration.entry_version = CURRENT_SCHEMA_VERSION

\* C23: whenever add_transaction or add_transaction_with_replacement returns
\* an error, the pooled transactions, the per-sender index and memory_usage()
\* are what they were immediately before the call.
C23_RejectionLeavesPool ==
    \A tx \in Universe : \A ord \in Orders(DOMAIN txs) : \A allow_replacement \in BOOLEAN :
        LET r == add_transaction_with_replacement(Pool, tx, state, allow_replacement,
                                                  now, ord)
        IN  r.result \notin {"Ok", "Panic"} =>
                /\ r.pool.txs = txs
                /\ r.pool.by_address = by_address
                /\ r.pool.memory_usage = memory_usage

\* C24: remove_expired() removes exactly the pooled transactions whose age
\* (now minus added_time) exceeds expiry_time, returns their number, reduces
\* len() by that number and leaves every younger transaction pooled as it was;
\* afterwards no pooled transaction is older than expiry_time.
C24_RemovesExactlyExpired ==
    \A t \in now..MaxTime :
        LET r == remove_expired(Pool, t)
            old == {h \in DOMAIN txs : t - txs[h].added_time > config.expiry_time}
        IN  /\ DOMAIN r.pool.txs = DOMAIN txs \ old
            /\ r.removed = Cardinality(old)
            /\ len(r.pool) = len(Pool) - r.removed
            /\ \A h \in DOMAIN r.pool.txs : r.pool.txs[h] = txs[h]
            /\ \A h \in DOMAIN r.pool.txs :
                    t - r.pool.txs[h].added_time <= config.expiry_time

\* one pooled transaction is older than expiry_time and another is exactly
\* expiry_time old
C24_Witness ==
    \E h1, h2 \in DOMAIN txs :
        /\ now - txs[h1].added_time > config.expiry_time
        /\ now - txs[h2].added_time = config.expiry_time
        /\ remove_expired(Pool, now).removed = 1

RECURSIVE AccountedFor(_)
AccountedFor(hashes) ==
    IF hashes = {} THEN 0
    ELSE LET h == CHOOSE h \in hashes : TRUE
         IN  AdmissionCharge(txs[h].transaction) + AccountedFor(hashes \ {h})

\* C25 (I2): memory_usage() equals the sum, over the pooled transactions, of
\* the size each is accounted for (transaction size plus the per-entry
\* overhead charged on admission), and is 0 exactly when the pool is empty.
C25_MemoryUsageIsSum ==
    /\ memory_usage = AccountedFor(DOMAIN txs)
    /\ memory_usage = 0 <=> txs = <<>>

\* the incoming transaction passes every admission check made before the
\* capacity check, and meets no pooled transaction of its sender and nonce
ReachesCapacityCheck(tx, ord) ==
    LET sender_state == get_account_state(state, tx.sender)[tx.sender]
    IN  /\ verify(tx)
        /\ hash(tx) \notin DOMAIN txs
        /\ find_transaction_by_sender_and_nonce(Pool, tx.sender, tx.nonce, ord) = None
        /\ tx.nonce = sender_state.nonce
        /\ sender_state.balance >= saturating_add(tx.amount, tx.fee)
        /\ calculate_fee_per_byte(tx) >= config.min_fee_per_byte

\* the pooled transactions of minimum fee per byte
MinimumFeePerByte ==
    {h \in DOMAIN txs : \A g \in DOMAIN txs :
        calculate_fee_per_byte(txs[h].transaction)
            <= calculate_fee_per_byte(txs[g].transaction)}

\* C26: at capacity (len() >= max_size), an incoming transaction whose fee per
\* byte is not strictly greater than the minimum fee per byte among the pooled
\* transactions is rejected and nothing is evicted; one whose fee per byte is
\* strictly greater, when admitted, takes the place of exactly one pooled
\* transaction of minimum fee per byte.
C26_AdmissionAtCapacity ==
    \A tx \in Universe : \A ord \in Orders(DOMAIN txs) :
        LET r == add_transaction(Pool, tx, state, now, ord)
        IN  (ReachesCapacityCheck(tx, ord) /\ len(Pool) >= config.max_size) =>
                IF \E h \in MinimumFeePerByte :
                        calculate_fee_per_byte(tx)
                            <= calculate_fee_per_byte(txs[h].transaction)
                THEN r.result # "Ok" /\ r.pool.txs = txs
                ELSE r.result = "Ok" =>
                        \E h \in MinimumFeePerByte :
                            DOMAIN r.pool.txs = (DOMAIN txs \ {h}) \cup {hash(tx)}

\* C27: revalidate_transactions(state) sets each pooled transaction's
\* is_valid flag to (sender balance >= amount + fee) and (tx.nonce = sender
\* nonce in state) and removes nothing from the pool; and select_transactions
\* returns no transaction whose flag is false, though the transaction is
\* still pooled.
C27_RevalidationSetsFlags ==
    LET r == revalidate_transactions(Pool, state)
    IN  /\ DOMAIN r.pool.txs = DOMAIN txs
        /\ r.pool.by_address = by_address
        /\ \A h \in DOMAIN txs :
              LET tx == txs[h].transaction
                  sender == AccountOf(state, tx.sender)
              IN  /\ r.pool.txs[h].transaction = tx
                  /\ r.pool.txs[h].is_valid =
                        (sender.balance - tx.amount >= tx.fee /\ tx.nonce = sender.nonce)
        /\ \A ord \in Orders(DOMAIN txs) : \A max_count \in 1..MaxCount :
              LET out == select_transactions(r.pool, max_count, r.state, ord).selected
              IN  \A k \in 1..Len(out) : r.pool.txs[hash(out[k])].is_valid
        /\ \A k \in 1..Len(selected) :
              hash(selected[k]) \in DOMAIN txs /\ txs[hash(selected[k])].is_valid

\* select_transactions has just returned one of two pooled transactions; the
\* other was marked invalid by a revalidation and is still pooled
C27_Witness ==
    /\ Len(selected) = 1
    /\ hash(selected[1]) \in DOMAIN txs
    /\ \E h \in DOMAIN txs :
          /\ ~txs[h].is_valid
          /\ ~revalidate_transactions(Pool, state).pool.txs[h].is_valid

\* C28: after revalidate_transactions has marked a transaction invalid, a
\* subsequent perform_maintenance() removes it: no transaction marked invalid
\* is pooled once maintenance has run.
C28_MaintenanceRemovesInvalid ==
    \A ord \in Orders(DOMAIN txs) :
        LET v == revalidate_transactions(Pool, state)
            r == perform_maintenance(v.pool, now, ord)
        IN  \A h \in DOMAIN r.pool.txs : r.pool.txs[h].is_valid

\* C29: after perform_maintenance() returns, the fee index holds at most
\* 2 * len() entries, whatever removals left stale entries before the call.
C29_FeeIndexCompacted ==
    \A ord \in Orders(DOMAIN txs) :
        LET r == perform_maintenance(Pool, now, ord)
        IN  Len(r.pool.by_fee) <= 2 * len(r.pool)

\* the positions of sender a's transactions in a batch
PositionsOf(transactions, a) ==
    {i \in 1..Len(transactions) : transactions[i].sender = a}

\* sender a's transactions in the batch are admissible one by one (valid, not
\* pooled, fee per byte at the floor) and carry the nonces n, ..., n+k-1, n
\* being a's nonce in state
ConsecutiveAdmissible(transactions, a) ==
    LET group == PositionsOf(transactions, a)
        n == AccountOf(state, a).nonce
    IN  /\ \A i \in group :
                /\ verify(transactions[i])
                /\ hash(transactions[i]) \notin DOMAIN txs
                /\ calculate_fee_per_byte(transactions[i]) >= config.min_fee_per_byte
        /\ {transactions[i].nonce : i \in group} = n..(n + Cardinality(group) - 1)

\* C30: batch admission does not depend on the input order within a sender.
\* For a sender whose nonce in state is n and whose transactions in the batch
\* are admissible one by one and carry the nonces n, n+1, ..., n+k-1 in any
\* order, add_transactions_batch admits exactly the j lowest nonces, j being
\* the longest prefix whose cumulative cost the balance covers (all k if it
\* covers all), and reports the others as failures; len() grows by exactly
\* the number of successes.  Checked for every batch, every sender in it and
\* every position of its transactions in the input, the sender's group being
\* the one the call takes first.
C30_BatchOrderIndependent ==
    \A transactions \in Batches : \A a \in SendersOf(transactions) :
        ConsecutiveAdmissible(transactions, a) =>
            \A senders \in {o \in Orders(SendersOf(transactions)) : o[1] = a} :
            \A r \in {add_transactions_batch(Pool, transactions, state, now, senders)} :
                LET admitted == {r.successes[x] : x \in 1..Len(r.successes)}
                    failed == {r.failures[x].idx : x \in 1..Len(r.failures)}
                    group == PositionsOf(transactions, a)
                    k == Cardinality(group)
                    account == AccountOf(state, a)
                    at(m) == CHOOSE i \in group : transactions[i].nonce = account.nonce + m
                    cost(i) == saturating_add(transactions[i].amount, transactions[i].fee)
                    cumulative[m \in 0..k] ==
                        IF m = 0 THEN 0 ELSE cumulative[m - 1] + cost(at(m - 1))
                    j == Cardinality({m \in 1..k : cumulative[m] <= account.balance})
                IN      /\ len(r.pool) = len(Pool) + Len(r.successes)
                        /\ \A m \in 0..(k - 1) :
                                hash(transactions[at(m)]) \in admitted <=> m < j
                        /\ \A m \in j..(k - 1) : at(m) - 1 \in failed
                        /\ \A m \in 0..(j - 1) :
                                hash(transactions[at(m)]) \in DOMAIN r.pool.txs

\* the pool has just taken the nonces 0 and 1 of A from a batch that listed
\* nonce 1 first, and another such batch would lose its second nonce to A's
\* balance
C30_Witness ==
    /\ last_result = "BatchOk"
    /\ \E g, h \in DOMAIN txs :
          /\ txs[g].transaction.sender = "A" /\ txs[g].transaction.nonce = 0
          /\ txs[h].transaction.sender = "A" /\ txs[h].transaction.nonce = 1
          /\ txs[h].added_time > txs[g].added_time
    /\ \E transactions \in Batches :
          /\ Len(transactions) = 2
          /\ transactions[1].sender = "A" /\ transactions[1].nonce = state["A"].nonce + 1
          /\ transactions[2].sender = "A" /\ transactions[2].nonce = state["A"].nonce
          /\ LET r == add_transactions_batch(Pool, transactions, state, now, <<"A">>)
             IN  Len(r.successes) = 1 /\ r.failures[1].idx = 0

\* the number of transactions of sender a among those applied
SentBy(a) == Cardinality({i \in 1..Len(applied) : applied[i].sender = a})

\* C31: from a state in which every account has nonce 0, after any sequence
\* of apply_transaction and apply_block calls, successful or failing, each
\* account's nonce is the number of transactions of that account that were
\* applied; no two applied transactions have the same sender and nonce; and
\* no call lowers a nonce.
C31_NonceCountsApplied ==
    /\ [](/\ \A a \in Senders \cup {Recipient} : AccountOf(state, a).nonce = SentBy(a)
          /\ \A i, k \in 1..Len(applied) :
                (applied[i].sender = applied[k].sender
                    /\ applied[i].nonce = applied[k].nonce) => i = k)
    /\ [][\A a \in Senders \cup {Recipient} :
            AccountOf(state', a).nonce >= AccountOf(state, a).nonce]_vars

\* A has had two transactions applied and B one, and a transaction of A with
\* a nonce already used would now fail
C31_Witness ==
    /\ SentBy("A") = 2
    /\ SentBy("B") = 1
    /\ \E tx \in ApplyUniverse :
          /\ tx.sender = "A" /\ tx.nonce = 0
          /\ ~apply_transaction(state, tx).ok

\* C32: on a non-empty store whose block at height 0 has a prev_hash other
\* than all zeros, verify_integrity() returns false.
C32_GenesisPrevHashChecked ==
    (0 \in IndexedHeights /\ HeaderAt(0).prev_hash # ZeroHash) =>
        verify_integrity(db) = Ok(FALSE)

\* C33: get_latest_block() returns Some(a stored block of greatest height)
\* whenever at least one block has been stored, and None only when nothing
\* has been stored.
C33_LatestBlock ==
    LET latest == get_latest_block(db)
    IN  IF db.blocks = <<>> THEN latest = Ok(None)
        ELSE /\ latest.ok
             /\ latest.value # None
             /\ \E h \in DOMAIN db.blocks : Unwrap(latest.value) = decode_block(db.blocks[h])
             /\ \A other \in StoredHeights : other <= Unwrap(latest.value).header.height

\* the bounds and limits the time range queries are called with
QueryTimes == {0, 1000, 1500, 2000}
QueryLimits == 1..3

\* C34: get_blocks_by_time_range(start, end, limit) returns exactly the stored
\* blocks whose timestamp t satisfies start <= t <= end when there are at most
\* limit of them, and limit of them otherwise, ordered by timestamp and then
\* by height; when the limit is not reached its count is that of
\* count_blocks_by_time_range(start, end).
C34_TimeRange ==
    \A start_time, end_time \in QueryTimes : \A limit \in QueryLimits :
        LET stored == {decode_block(db.blocks[h]) : h \in DOMAIN db.blocks}
            in_range == {b \in stored : /\ start_time <= b.header.timestamp
                                        /\ b.header.timestamp <= end_time}
            blocks == get_blocks_by_time_range(db, start_time, end_time, limit).value
            returned == {blocks[i] : i \in 1..Len(blocks)}
        IN  start_time <= end_time =>
              /\ returned \subseteq in_range
              /\ Cardinality(returned) = Len(blocks)
              /\ Len(blocks) = Min(limit, Cardinality(in_range))
              /\ \A i, k \in 1..Len(blocks) : i < k =>
                    \/ blocks[i].header.timestamp < blocks[k].header.timestamp
                    \/ /\ blocks[i].header.timestamp = blocks[k].header.timestamp
                       /\ blocks[i].header.height <= blocks[k].header.height
              /\ Len(blocks) < limit =>
                    count_blocks_by_time_range(db, start_time, end_time) = Ok(Len(blocks))

\* the version get_schema_version reads from the stored value
StoredVersion(m) == get_schema_version(m.schema_version)

\* a step of a call of check_and_migrate: its entry or a later step of it
InCall == migration'.calls = migration.calls + 1 \/ migration.pc # "idle"

\* C35: in check_and_migrate the backup, when backup_before_migration is set,
\* is created before any migration function runs; the stored schema version
\* changes only by the write of a step's to_version after that step's
\* migrate_fn returned Ok; the stored version never decreases during a call;
\* when the call fails before any step completed the stored version is the
\* one read at entry; and a call that finds a stored version greater than
\* CURRENT_SCHEMA_VERSION fails with no backup and no write.
C35_MigrationStepsOrdered ==
    /\ [](/\ (/\ migration.pc \in {"migrate", "set_version"}
               /\ Unwrap(migration.config).backup_before_migration)
                => migration.backups = 1
          /\ migration.pc = "backup" => migration.writes = 0
          /\ (/\ migration.pc = "idle"
               /\ ~migration.result.ok
               /\ migration.result.value # "none"
               /\ migration.writes = 0)
                => /\ StoredVersion(migration).ok
                   /\ StoredVersion(migration).value = migration.entry_version)
    /\ [][InCall /\ migration'.schema_version # migration.schema_version =>
            /\ migration.pc = "set_version"
            /\ migration'.schema_version =
                    set_schema_version(Head(migration.path).to_version)
            /\ migration'.writes = migration.writes + 1]_vars
    /\ [][migration'.pc = "set_version" =>
            /\ migration.pc = "migrate"
            /\ Head(migration.path).migrate_fn]_vars
    /\ [][InCall => /\ StoredVersion(migration').ok
                    /\ StoredVersion(migration').value >= StoredVersion(migration).value]_vars
    /\ [][(/\ migration.pc = "idle"
           /\ migration'.calls = migration.calls + 1
           /\ StoredVersion(migration).value > CURRENT_SCHEMA_VERSION) =>
            /\ migration'.pc = "idle"
            /\ ~migration'.result.ok
            /\ migration'.writes = 0
            /\ migration'.backups = 0
            /\ migration'.schema_version = migration.schema_version]_vars

\* a call with backup_before_migration has returned Ok(true) after one backup
\* and one version write, and it was not the first call
C35_Witness ==
    /\ migration.pc = "idle"
    /\ migration.calls >= 2
    /\ migration.result.ok
    /\ migration.result.value
    /\ Unwrap(migration.config).backup_before_migration
    /\ migration.backups = 1
    /\ migration.writes = 1
    /\ migration.schema_version = set_schema_version(1)

\* a call that found a stored version above CURRENT_SCHEMA_VERSION has failed
C35_NewerRejected ==
    /\ migration.pc = "idle"
    /\ ~migration.result.ok
    /\ migration.result.value = "Database"
    /\ migration.entry_version > CURRENT_SCHEMA_VERSION

\* C36: optimize_memory() called while memory_usage() > 0.75 * max_memory
\* returns with memory_usage() <= 0.60 * max_memory or with an empty pool,
\* and has removed at least one transaction if the pool was non-empty; called
\* while memory_usage() <= 0.75 * max_memory it removes nothing and returns 0.
C36_OptimizeReachesTarget ==
    \A ord \in Orders(DOMAIN txs) :
        \A r \in {optimize_memory(Pool, ord)} :
            IF 4 * memory_usage > 3 * config.max_memory
            THEN /\ \/ 10 * r.pool.memory_usage <= 6 * config.max_memory
                    \/ DOMAIN r.pool.txs = {}
                 /\ DOMAIN txs # {} =>
                        /\ r.removed >= 1
                        /\ Cardinality(DOMAIN r.pool.txs) < Cardinality(DOMAIN txs)
            ELSE /\ r.removed = 0
                 /\ r.pool = Pool

C37_WitnessNewer ==
    \E ord \in Orders(DOMAIN txs) :
        \A r \in {optimize_memory(Pool, ord)} :
            \E x \in DOMAIN txs \ DOMAIN r.pool.txs : \E y \in DOMAIN r.pool.txs :
                /\ calculate_fee_per_byte(txs[x].transaction)
                    = calculate_fee_per_byte(txs[y].transaction)
                /\ txs[x].added_time > txs[y].added_time

\* the balance and nonce an address reads as: those of a new account when the
\* state holds none for it
AccountRead(st, address) == get_account_state(st, address)[address]

\* C38: select_transactions adds, removes and re-flags no pooled transaction
\* and leaves len() and memory_usage() as they were; it changes no account's
\* balance or nonce in the state passed in; it returns at most max_count
\* transactions, none of them twice; and a second call with the same
\* max_count on the pool and the state the first call left returns the same
\* sequence.
C38_SelectionReadOnly ==
    /\ [](\A max_count \in 0..MaxCount : \A ord \in Orders(DOMAIN txs) :
            \A r \in {select_transactions(Pool, max_count, state, ord)} :
                /\ Len(r.selected) <= max_count
                /\ \A i, j \in 1..Len(r.selected) :
                        r.selected[i] = r.selected[j] => i = j
                /\ \A a \in Senders \cup {Recipient} :
                        AccountRead(r.state, a) = AccountRead(state, a)
                /\ select_transactions(Pool, max_count, r.state, ord).selected
                        = r.selected)
    /\ [][selected' # <<>> =>
            /\ txs' = txs
            /\ by_fee' = by_fee
            /\ by_address' = by_address
            /\ memory_usage' = memory_usage
            /\ \A a \in Senders \cup {Recipient} :
                    AccountRead(state', a) = AccountRead(state, a)]_vars

\* two transactions were selected from a pool that still holds both
C38_Witness ==
    /\ Len(selected) = 2
    /\ \A i \in 1..2 : hash(selected[i]) \in DOMAIN txs
    /\ memory_usage > 0

\* the accounts of the ledger runs
Accounts == Senders \cup {Recipient}

\* the sum over the accounts of what each balance gained from st to st2; a
\* transfer changes at most one balance down and one up
RECURSIVE Gain(_, _, _)
Gain(st, st2, S) ==
    IF S = {} THEN 0
    ELSE LET a == CHOOSE a \in S : TRUE
         IN  (AccountRead(st2, a).balance - AccountRead(st, a).balance)
             + Gain(st, st2, S \ {a})

\* the sum of all balances is 4 * q + r, kept in two parts because it does
\* not fit in one u64
RECURSIVE Quarters(_, _)
Quarters(st, S) ==
    IF S = {} THEN 0
    ELSE LET a == CHOOSE a \in S : TRUE
         IN  (AccountRead(st, a).balance \div 4) + Quarters(st, S \ {a})

RECURSIVE Remainders(_, _)
Remainders(st, S) ==
    IF S = {} THEN 0
    ELSE LET a == CHOOSE a \in S : TRUE
         IN  (AccountRead(st, a).balance % 4) + Remainders(st, S \ {a})

TotalBalance(st) ==
    [q |-> Quarters(st, Accounts) + (Remainders(st, Accounts) \div 4),
     r |-> Remainders(st, Accounts) % 4]

TotalAtMost(t, u) == t.q < u.q \/ (t.q = u.q /\ t.r <= u.r)

\* the recipient's balance at the moment of the credit cannot take the amount
CreditSaturates(st, tx) ==
    LET before == IF tx.recipient = tx.sender
                  THEN saturating_sub(AccountRead(st, tx.sender).balance,
                                      saturating_add(tx.amount, tx.fee))
                  ELSE AccountRead(st, tx.recipient).balance
    IN  before > U64_MAX - tx.amount

\* C39: every successful apply_transaction decreases the sum of all account
\* balances by exactly tx.fee when the recipient credit does not saturate and
\* by more when it does, a failing apply_transaction leaves the sum unchanged,
\* and the total balance is at most the genesis total.
C39_FeeLeavesTotal ==
    /\ \A tx \in ApplyUniverse :
        \A r \in {apply_transaction(state, tx)} :
            /\ r.ok /\ ~CreditSaturates(state, tx) => -Gain(state, r.state, Accounts) = tx.fee
            /\ r.ok /\ CreditSaturates(state, tx) => -Gain(state, r.state, Accounts) > tx.fee
            /\ ~r.ok => Gain(state, r.state, Accounts) = 0
    /\ TotalAtMost(TotalBalance(state), TotalBalance(GenesisState))

\* what a successful apply_transaction takes out of the sum when the credit
\* does not saturate: the fee, or what is left of u64::MAX above the amount
\* when amount + fee does not fit in a u64
NetDeduction(tx) ==
    IF tx.amount > U64_MAX - tx.fee THEN U64_MAX - tx.amount ELSE tx.fee

\* C39, amended: every successful apply_transaction decreases the sum of all
\* account balances by exactly the saturating sum of amount and fee less the
\* amount (tx.fee when amount + fee fits in a u64, less than tx.fee when it
\* does not) when the recipient credit does not saturate and by more when it
\* does, a failing apply_transaction leaves the sum unchanged, and the total
\* balance is at most the genesis total.
C39_TotalNeverGrows ==
    /\ \A tx \in ApplyUniverse :
        \A r \in {apply_transaction(state, tx)} :
            /\ r.ok /\ ~CreditSaturates(state, tx)
                    => -Gain(state, r.state, Accounts) = NetDeduction(tx)
            /\ r.ok /\ CreditSaturates(state, tx)
                    => -Gain(state, r.state, Accounts) > NetDeduction(tx)
            /\ ~r.ok => Gain(state, r.state, Accounts) = 0
            /\ TotalAtMost(TotalBalance(r.state), TotalBalance(state))
    /\ TotalAtMost(TotalBalance(state), TotalBalance(GenesisState))

\* a transaction whose amount plus fee does not fit in a u64 has been
\* applied, and another transaction as well
C39_Witness ==
    /\ Len(applied) >= 2
    /\ \E i \in 1..Len(applied) : applied[i].amount > U64_MAX - applied[i].fee
    /\ \E tx \in ApplyUniverse :
            apply_transaction(state, tx).ok /\ CreditSaturates(state, tx)

\* what the admission calls are handed here: the transactions of the runs
\* and, where no fee floor refuses it, one whose accounted size is above
\* max_memory
MemoryUniverse ==
    Universe \cup (IF config.min_fee_per_byte = 0
                   THEN {Transaction(1, "B", Recipient, 100, 60, 0, BigData, TRUE)}
                   ELSE {})

\* C40: the memory counter never underflows: on the memory-limit rejection
\* paths of add_transaction_with_replacement and
\* process_replacement_transaction, which run after optimize_memory may have
\* evicted entries, the roll-back subtraction of the incoming transaction's
\* accounted size is at most the counter's value.
C40_NoCounterUnderflow ==
    \A tx \in MemoryUniverse : \A ord \in Orders(DOMAIN txs) :
        \A allow_replacement \in BOOLEAN :
            add_transaction_with_replacement(Pool, tx, state, allow_replacement,
                                             now, ord).result # "Panic"

====
